---- MODULE Spec2Model ----
(***************************************************************************)
(* AIARForecaster: the CSV-to-time-series aggregation engine               *)
(* (src/services/csvService.ts).                                           *)
(*                                                                         *)
(* Text is modelled as a sequence of one-character strings, so that the    *)
(* tokenizer, the header normalisation, the date rules and parseFloat are  *)
(* computed character by character as the code computes them.              *)
(*                                                                         *)
(* JavaScript numbers are tagged records (finite integers, +-Infinity,     *)
(* NaN, undefined); plain objects are sequences of key/value pairs in      *)
(* insertion order, looked up through the prototype chain of the realm.    *)
(***************************************************************************)
EXTENDS Integers, Sequences, FiniteSets, TLC

(***************************************************************************)
(* Bounds of the model.                                                    *)
(***************************************************************************)
\* data rows per generated file of the aggregation family
MaxRows == 2
\* parseCSV invocations per behaviour (the realm persists between them)
MaxParses == 2

(***************************************************************************)
(* Characters.  Alphabet lists the characters of the model in UTF-16 code  *)
(* unit order; CodeUnit is the rank of a character in it, which orders     *)
(* characters as their code units do.                                      *)
(***************************************************************************)
Alphabet ==
  << "\n", "\r", " ", "\"", "+", ",", "-", ".", "/",
     "0", "1", "2", "3", "4", "5", "6", "7", "8", "9", ":",
     "A", "B", "C", "D", "E", "F", "G", "H", "I", "J", "K", "L", "M",
     "N", "O", "P", "Q", "R", "S", "T", "U", "V", "W", "X", "Y", "Z",
     "_",
     "a", "b", "c", "d", "e", "f", "g", "h", "i", "j", "k", "l", "m",
     "n", "o", "p", "q", "r", "s", "t", "u", "v", "w", "x", "y", "z" >>

Chars == {Alphabet[k] : k \in 1..Len(Alphabet)}

CodeUnitTable == [c \in Chars |-> CHOOSE k \in 1..Len(Alphabet) : Alphabet[k] = c]

CodeUnit(c) == CodeUnitTable[c]

DigitChars == {"0", "1", "2", "3", "4", "5", "6", "7", "8", "9"}

UpperChars == {c \in Chars : CodeUnit(c) >= CodeUnit("A") /\ CodeUnit(c) <= CodeUnit("Z")}

LowerChars == {c \in Chars : CodeUnit(c) >= CodeUnit("a") /\ CodeUnit(c) <= CodeUnit("z")}

\* the white space String.prototype.trim removes, within the alphabet
WhiteSpaceChars == {" ", "\r", "\n"}

DigitVal(c) == CodeUnit(c) - CodeUnit("0")

\* String.prototype.toLowerCase on one character
ToLowerChar(c) ==
  IF c \in UpperChars THEN Alphabet[CodeUnit(c) - CodeUnit("A") + CodeUnit("a")] ELSE c

(***************************************************************************)
(* Strings (sequences of characters).                                      *)
(***************************************************************************)
\* the characters of s that satisfy keep, in order (String.replace(/[..]/g, ''))
RECURSIVE KeepChars(_, _)
KeepChars(s, keep) ==
  IF s = << >> THEN << >>
  ELSE IF Head(s) \in keep THEN << Head(s) >> \o KeepChars(Tail(s), keep)
       ELSE KeepChars(Tail(s), keep)

RECURSIVE TrimStart(_)
TrimStart(s) ==
  IF s # << >> /\ Head(s) \in WhiteSpaceChars THEN TrimStart(Tail(s)) ELSE s

RECURSIVE TrimEnd(_)
TrimEnd(s) ==
  IF s # << >> /\ s[Len(s)] \in WhiteSpaceChars
  THEN TrimEnd(SubSeq(s, 1, Len(s) - 1)) ELSE s

\* String.prototype.trim
Trim(s) == TrimEnd(TrimStart(s))

\* String.prototype.toLowerCase
ToLowerCase(s) == [k \in 1..Len(s) |-> ToLowerChar(s[k])]

\* String.prototype.includes for a single character
Includes(s, c) == \E k \in 1..Len(s) : s[k] = c

\* String.prototype.startsWith(p)
StartsWith(s, p) == Len(s) >= Len(p) /\ SubSeq(s, 1, Len(p)) = p

\* comparison of strings by code units: -1, 0 or 1
RECURSIVE CompareStr(_, _)
CompareStr(a, b) ==
  IF a = << >> /\ b = << >> THEN 0
  ELSE IF a = << >> THEN -1
  ELSE IF b = << >> THEN 1
  ELSE IF CodeUnit(Head(a)) < CodeUnit(Head(b)) THEN -1
  ELSE IF CodeUnit(Head(a)) > CodeUnit(Head(b)) THEN 1
  ELSE CompareStr(Tail(a), Tail(b))

\* the decimal digits of a natural number (String(n))
RECURSIVE NatToStr(_)
NatToStr(n) ==
  IF n < 10 THEN << Alphabet[CodeUnit("0") + n] >>
  ELSE NatToStr(n \div 10) \o << Alphabet[CodeUnit("0") + (n % 10)] >>

\* the template-literal conversion of an integer (negative years print a sign)
IntToStr(n) == IF n < 0 THEN << "-" >> \o NatToStr(0 - n) ELSE NatToStr(n)

\* the value of a run of decimal digits
RECURSIVE DigitsToNat(_)
DigitsToNat(s) ==
  IF s = << >> THEN 0
  ELSE DigitsToNat(SubSeq(s, 1, Len(s) - 1)) * 10 + DigitVal(s[Len(s)])

\* String.prototype.padStart(2, '0')
PadStart2(s) == IF Len(s) < 2 THEN << "0" >> \o s ELSE s

(***************************************************************************)
(* JavaScript numbers.  A value is int (a finite integer), inf (n = 1 for  *)
(* Infinity, -1 for -Infinity), nan, or undef (a missing property).        *)
(* Amounts with a fractional part or an exponent are outside the inputs of *)
(* the model, so every finite number here is an integer.                   *)
(***************************************************************************)
IntNum(n) == [t |-> "int", n |-> n]

InfNum(sign) == [t |-> "inf", n |-> sign]

NaN == [t |-> "nan", n |-> 0]

Undefined == [t |-> "undef", n |-> 0]

\* !x
Falsy(x) == x.t \in {"undef", "nan"} \/ (x.t = "int" /\ x.n = 0)

\* isNaN(x)
IsNaN(x) == x.t \in {"nan", "undef"}

\* Number.isFinite(x)
IsFinite(x) == x.t = "int"

\* a + b on numbers
AddNum(a, b) ==
  IF IsNaN(a) \/ IsNaN(b) THEN NaN
  ELSE IF a.t = "inf" /\ b.t = "inf" THEN (IF a.n = b.n THEN a ELSE NaN)
  ELSE IF a.t = "inf" THEN a
  ELSE IF b.t = "inf" THEN b
  ELSE IntNum(a.n + b.n)

InfinityLit == << "I", "n", "f", "i", "n", "i", "t", "y" >>

\* the longest prefix of s made of decimal digits
RECURSIVE DigitPrefix(_)
DigitPrefix(s) ==
  IF s # << >> /\ Head(s) \in DigitChars
  THEN << Head(s) >> \o DigitPrefix(Tail(s)) ELSE << >>

\* parseFloat(s): leading white space is skipped, then the longest prefix that
\* is a decimal literal is converted (trailing text is ignored); NaN when
\* there is no such prefix.  "Infinity" is a decimal literal.
ParseFloat(s) ==
  LET t    == TrimStart(s)
      neg  == t # << >> /\ Head(t) = "-"
      sgn  == t # << >> /\ Head(t) \in {"-", "+"}
      body == IF sgn THEN Tail(t) ELSE t
      ds   == DigitPrefix(body)
  IN IF StartsWith(body, InfinityLit) THEN InfNum(IF neg THEN -1 ELSE 1)
     ELSE IF ds = << >> THEN NaN
     ELSE IntNum(IF neg THEN 0 - DigitsToNat(ds) ELSE DigitsToNat(ds))

(***************************************************************************)
(* parseCSVLine (csvService.ts 5-31).                                      *)
(***************************************************************************)
\* the loop of lines 10-21: the fields of line from position k on, given the
\* field under construction and the inside-quotes flag
\* the loop splitting at every comma, quoted or not: a variant of ScanLine
RECURSIVE ScanLineEveryComma(_, _, _, _)
ScanLineEveryComma(line, k, current, inQuotes) ==
  IF k > Len(line) THEN << current >>
  ELSE IF line[k] = "\"" THEN ScanLineEveryComma(line, k + 1, current, ~inQuotes)
  ELSE IF line[k] = ","
       THEN << current >> \o ScanLineEveryComma(line, k + 1, << >>, inQuotes)
  ELSE ScanLineEveryComma(line, k + 1, current \o << line[k] >>, inQuotes)

RECURSIVE ScanLine(_, _, _, _)
ScanLine(line, k, current, inQuotes) ==
  IF k > Len(line) THEN << current >>
  ELSE IF line[k] = "\"" THEN ScanLine(line, k + 1, current, ~inQuotes)
  ELSE IF line[k] = "," /\ ~inQuotes
       THEN << current >> \o ScanLine(line, k + 1, << >>, inQuotes)
  ELSE ScanLine(line, k + 1, current \o << line[k] >>, inQuotes)

\* the clean-up of lines 24-30 on one field
CleanField(val) ==
  LET t == Trim(val)
      u == IF t # << >> /\ Head(t) = "\"" /\ t[Len(t)] = "\""
           THEN SubSeq(t, 2, Len(t) - 1) ELSE t
  IN KeepChars(u, Chars \ {"\"", "\r"})

parseCSVLine(line) ==
  LET result == ScanLine(line, 1, << >>, FALSE)
  IN [k \in 1..Len(result) |-> CleanField(result[k])]

(***************************************************************************)
(* text.split(/\r?\n/) (csvService.ts 45).                                 *)
(***************************************************************************)
\* the position of the first line feed of s, 0 when it has none
FirstLineFeed(s) ==
  IF \E k \in 1..Len(s) : s[k] = "\n"
  THEN CHOOSE k \in 1..Len(s) : s[k] = "\n" /\ \A j \in 1..(k - 1) : s[j] # "\n"
  ELSE 0

\* the pieces between the matches of /\r?\n/: a line ends before its line
\* feed, or before the carriage return right in front of it
RECURSIVE SplitLines(_)
SplitLines(s) ==
  LET k == FirstLineFeed(s)
      e == IF k > 1 /\ s[k - 1] = "\r" THEN k - 2 ELSE k - 1
  IN IF k = 0 THEN << s >>
     ELSE << SubSeq(s, 1, e) >> \o SplitLines(SubSeq(s, k + 1, Len(s)))

(***************************************************************************)
(* Header resolution (csvService.ts 52-69).  Indices are zero-based and -1 *)
(* stands for "not found", as Array.prototype.indexOf returns them.        *)
(***************************************************************************)
\* h.toLowerCase().replace(/[^a-z0-9]/g, '')
NormalizeHeader(h) == KeepChars(ToLowerCase(h), LowerChars \cup DigitChars)

headersOf(line) ==
  LET cols == parseCSVLine(line)
  IN [k \in 1..Len(cols) |-> NormalizeHeader(cols[k])]

\* Array.prototype.indexOf
IndexOf(seq, x) ==
  IF \E k \in 1..Len(seq) : seq[k] = x
  THEN (CHOOSE k \in 1..Len(seq) : seq[k] = x /\ \A j \in 1..(k - 1) : seq[j] # x) - 1
  ELSE -1

Key_billperiod == << "b", "i", "l", "l", "p", "e", "r", "i", "o", "d" >>
Key_monthly == << "m", "o", "n", "t", "h", "l", "y" >>
Key_amount == << "a", "m", "o", "u", "n", "t" >>
Key_accountclass == << "a", "c", "c", "o", "u", "n", "t", "c", "l", "a", "s", "s" >>
Key_actcode == << "a", "c", "t", "c", "o", "d", "e" >>
Key_account_class == << "a", "c", "c", "o", "u", "n", "t", "_", "c", "l", "a", "s", "s" >>

\* lines 58-60
dateIndexOf(headers) ==
  IF IndexOf(headers, Key_billperiod) # -1 THEN IndexOf(headers, Key_billperiod)
  ELSE IndexOf(headers, Key_monthly)

\* line 63
amountIndexOf(headers) == IndexOf(headers, Key_amount)

\* the class column with actcode tried before accountclass: a variant of
\* classIndexOf
classIndexOfActcodeFirst(headers) ==
  IF IndexOf(headers, Key_actcode) # -1 THEN IndexOf(headers, Key_actcode)
  ELSE IF IndexOf(headers, Key_accountclass) # -1 THEN IndexOf(headers, Key_accountclass)
  ELSE IndexOf(headers, Key_account_class)

\* lines 66-69
classIndexOf(headers) ==
  IF IndexOf(headers, Key_accountclass) # -1 THEN IndexOf(headers, Key_accountclass)
  ELSE IF IndexOf(headers, Key_actcode) # -1 THEN IndexOf(headers, Key_actcode)
  ELSE IndexOf(headers, Key_account_class)

(***************************************************************************)
(* new Date(rawDate) (csvService.ts 116-119).  The host is the JavaScript  *)
(* engine and its time zone: host.lenient tells whether the engine's       *)
(* implementation-defined fallback parser accepts month/year text such as  *)
(* "9/2023", host.tz is the local offset from UTC in hours.                *)
(*                                                                         *)
(* ECMA-262 fixes the result for the date-time format                      *)
(* YYYY-MM-DDTHH:mm (local time) and YYYY-MM-DDTHH:mmZ (UTC); any other    *)
(* text goes to the fallback parser.                                       *)
(***************************************************************************)
Hosts == { [lenient |-> TRUE, tz |-> 7], [lenient |-> FALSE, tz |-> -5] }

InvalidDate == [valid |-> FALSE, y |-> 0, m |-> 0]

IsLeapYear(y) == (y % 4 = 0 /\ y % 100 # 0) \/ y % 400 = 0

DaysInMonth(y, m) ==
  IF m = 2 THEN (IF IsLeapYear(y) THEN 29 ELSE 28)
  ELSE IF m \in {4, 6, 9, 11} THEN 30 ELSE 31

AllDigits(s) == \A k \in 1..Len(s) : s[k] \in DigitChars

\* getFullYear() and getMonth() + 1 of the instant y-m-d hh:00 UTC, in a zone
\* tz hours from UTC
LocalYearMonth(y, m, d, hh, tz) ==
  LET h  == hh + tz
      d1 == IF h < 0 THEN d - 1 ELSE IF h >= 24 THEN d + 1 ELSE d
  IN IF d1 < 1
     THEN (IF m = 1 THEN [valid |-> TRUE, y |-> y - 1, m |-> 12]
           ELSE [valid |-> TRUE, y |-> y, m |-> m - 1])
     ELSE IF d1 > DaysInMonth(y, m)
     THEN (IF m = 12 THEN [valid |-> TRUE, y |-> y + 1, m |-> 1]
           ELSE [valid |-> TRUE, y |-> y, m |-> m + 1])
     ELSE [valid |-> TRUE, y |-> y, m |-> m]

\* the ECMA-262 date-time format, with or without the UTC designator
IsIsoDateTime(s) ==
  /\ Len(s) \in {16, 17}
  /\ AllDigits(SubSeq(s, 1, 4)) /\ s[5] = "-"
  /\ AllDigits(SubSeq(s, 6, 7)) /\ s[8] = "-"
  /\ AllDigits(SubSeq(s, 9, 10)) /\ s[11] = "T"
  /\ AllDigits(SubSeq(s, 12, 13)) /\ s[14] = ":"
  /\ AllDigits(SubSeq(s, 15, 16))
  /\ (Len(s) = 17 => s[17] = "Z")
  /\ DigitsToNat(SubSeq(s, 6, 7)) \in 1..12
  /\ DigitsToNat(SubSeq(s, 9, 10)) >= 1
  /\ DigitsToNat(SubSeq(s, 9, 10))
       <= DaysInMonth(DigitsToNat(SubSeq(s, 1, 4)), DigitsToNat(SubSeq(s, 6, 7)))
  /\ DigitsToNat(SubSeq(s, 12, 13)) <= 23
  /\ DigitsToNat(SubSeq(s, 15, 16)) <= 59

\* the ECMA-262 date-only formats YYYY-MM-DD and YYYY-MM (UTC midnight)
IsIsoDate(s) ==
  /\ Len(s) \in {7, 10}
  /\ AllDigits(SubSeq(s, 1, 4)) /\ s[5] = "-"
  /\ AllDigits(SubSeq(s, 6, 7))
  /\ DigitsToNat(SubSeq(s, 6, 7)) \in 1..12
  /\ (Len(s) = 10 =>
        /\ s[8] = "-"
        /\ AllDigits(SubSeq(s, 9, 10))
        /\ DigitsToNat(SubSeq(s, 9, 10)) >= 1
        /\ DigitsToNat(SubSeq(s, 9, 10))
             <= DaysInMonth(DigitsToNat(SubSeq(s, 1, 4)), DigitsToNat(SubSeq(s, 6, 7))))

\* month/year text: one or two digits, a slash, four digits
IsMonthSlashYear(s) ==
  /\ Len(s) \in {6, 7}
  /\ s[Len(s) - 4] = "/"
  /\ AllDigits(SubSeq(s, 1, Len(s) - 5))
  /\ AllDigits(SubSeq(s, Len(s) - 3, Len(s)))
  /\ DigitsToNat(SubSeq(s, 1, Len(s) - 5)) \in 1..12

\* the year and month new Date(s) reports in local time, or an invalid date
NewDate(s, host) ==
  IF IsIsoDateTime(s)
  THEN LET y  == DigitsToNat(SubSeq(s, 1, 4))
           m  == DigitsToNat(SubSeq(s, 6, 7))
           d  == DigitsToNat(SubSeq(s, 9, 10))
           hh == DigitsToNat(SubSeq(s, 12, 13))
       IN IF Len(s) = 17 THEN LocalYearMonth(y, m, d, hh, host.tz)
          ELSE [valid |-> TRUE, y |-> y, m |-> m]
  ELSE IF IsIsoDate(s)
  THEN LocalYearMonth(DigitsToNat(SubSeq(s, 1, 4)), DigitsToNat(SubSeq(s, 6, 7)),
                      IF Len(s) = 10 THEN DigitsToNat(SubSeq(s, 9, 10)) ELSE 1,
                      0, host.tz)
  ELSE IF IsMonthSlashYear(s) /\ host.lenient
  THEN [valid |-> TRUE, y |-> DigitsToNat(SubSeq(s, Len(s) - 3, Len(s))),
        m |-> DigitsToNat(SubSeq(s, 1, Len(s) - 5))]
  ELSE InvalidDate

(***************************************************************************)
(* Date normalisation (csvService.ts 99-124).                              *)
(***************************************************************************)
\* rawDate.replace(/[^0-9]/g, '')
cleanDateOf(rawDate) == KeepChars(rawDate, DigitChars)

\* the rules with calendar parsing tried first: a variant of dateRuleOf
dateRuleCalendarFirst(rawDate) ==
  IF Includes(rawDate, "-") \/ Includes(rawDate, "/") THEN 3
  ELSE IF Len(cleanDateOf(rawDate)) = 6 THEN 1
  ELSE IF Len(cleanDateOf(rawDate)) = 8 THEN 2
  ELSE 0

\* the branch of lines 104-122 taken for rawDate: 1 (six digits), 2 (eight
\* digits), 3 (calendar parsing) or 0 (no branch)
dateRuleOf(rawDate) ==
  IF Len(cleanDateOf(rawDate)) = 6 THEN 1
  ELSE IF Len(cleanDateOf(rawDate)) = 8 THEN 2
  ELSE IF Includes(rawDate, "-") \/ Includes(rawDate, "/") THEN 3
  ELSE 0

\* `${y}-${m}` of lines 106-108 and 111-113
digitKey(cleanDate) == SubSeq(cleanDate, 1, 4) \o << "-" >> \o SubSeq(cleanDate, 5, 6)

\* `${y}-${m}` of lines 118-120
calendarKey(d) == IntToStr(d.y) \o << "-" >> \o PadStart2(NatToStr(d.m))

\* dateKey after lines 101-122; the empty string when no rule gives a key
dateKeyOf(rawDate, host) ==
  LET rule == dateRuleOf(rawDate)
  IN IF rule \in {1, 2} THEN digitKey(cleanDateOf(rawDate))
     ELSE IF rule = 3 /\ NewDate(rawDate, host).valid
     THEN calendarKey(NewDate(rawDate, host))
     ELSE << >>

(***************************************************************************)
(* Plain objects and the realm.                                            *)
(*                                                                         *)
(* An object is the sequence of its own enumerable properties in insertion *)
(* order.  A property read that finds no own property continues along the  *)
(* prototype chain: every object literal inherits from Object.prototype.   *)
(* The realm holds the two built-in objects that the aggregation can       *)
(* reach through a class name: Object.prototype (classMap["__proto__"])    *)
(* and the Object function (classMap["constructor"]); realm.proto and      *)
(* realm.ctor are the enumerable properties added to them.  The other      *)
(* names Object.prototype defines (toString, valueOf, ...) behave like     *)
(* "constructor" and are not among the class names of the inputs.          *)
(***************************************************************************)
EmptyObject == << >>

FreshRealm == [proto |-> EmptyObject, ctor |-> EmptyObject]

HasOwn(o, key) == \E k \in 1..Len(o) : o[k].k = key

OwnValue(o, key) == o[CHOOSE k \in 1..Len(o) : o[k].k = key].v

\* o[key] = val on an own property: updated in place, or appended
PutOwn(o, key, val) ==
  IF HasOwn(o, key)
  THEN [k \in 1..Len(o) |-> IF o[k].k = key THEN [k |-> key, v |-> val] ELSE o[k]]
  ELSE Append(o, [k |-> key, v |-> val])

Str___proto__ == << "_", "_", "p", "r", "o", "t", "o", "_", "_" >>
Str_constructor == << "c", "o", "n", "s", "t", "r", "u", "c", "t", "o", "r" >>
Str_Unclassified == << "U", "n", "c", "l", "a", "s", "s", "i", "f", "i", "e", "d" >>
Str_Unknown == << "U", "n", "k", "n", "o", "w", "n" >>

\* o[key] for a number-valued property of an object literal o
GetNumber(o, key, realm) ==
  IF HasOwn(o, key) THEN OwnValue(o, key)
  ELSE IF HasOwn(realm.proto, key) THEN OwnValue(realm.proto, key)
  ELSE Undefined

\* what classMap[className] evaluates to: an own entry of classMap, the
\* object Object.prototype, the function Object, a number inherited from
\* Object.prototype, or undefined
ClassRef(classMap, className, realm) ==
  IF HasOwn(classMap, className) THEN [kind |-> "own", num |-> Undefined]
  ELSE IF className = Str___proto__ THEN [kind |-> "proto", num |-> Undefined]
  ELSE IF className = Str_constructor THEN [kind |-> "ctor", num |-> Undefined]
  ELSE IF HasOwn(realm.proto, className)
       THEN [kind |-> "prim", num |-> OwnValue(realm.proto, className)]
  ELSE [kind |-> "none", num |-> Undefined]

\* classMap[className][dateKey], for the object kind that classMap[className] is
GetClassAmount(kind, classMap, className, dateKey, realm) ==
  IF kind = "own" THEN GetNumber(OwnValue(classMap, className), dateKey, realm)
  ELSE IF kind = "proto" THEN GetNumber(EmptyObject, dateKey, realm)
  ELSE GetNumber(realm.ctor, dateKey, realm)

\* classMap[className][dateKey] = val: the new classMap and realm
SetClassAmount(kind, classMap, className, dateKey, val, realm) ==
  IF kind = "own"
  THEN [classMap |-> PutOwn(classMap, className,
                            PutOwn(OwnValue(classMap, className), dateKey, val)),
        realm |-> realm]
  ELSE IF kind = "proto"
  THEN [classMap |-> classMap,
        realm |-> [realm EXCEPT !.proto = PutOwn(realm.proto, dateKey, val)]]
  ELSE [classMap |-> classMap,
        realm |-> [realm EXCEPT !.ctor = PutOwn(realm.ctor, dateKey, val)]]

(***************************************************************************)
(* The row loop of parseCSV (csvService.ts 77-145).                        *)
(*                                                                         *)
(* A loop state holds the locals totalMap, classMap, foundClasses and      *)
(* validRowCount, the realm, whether an exception was thrown, and rows:    *)
(* one record per data line visited, with the verdict of the iteration     *)
(* (blank, short, empty, date, amount: skipped at that check; ok:          *)
(* aggregated; threw) and the locals rawDate, dateKey, amount, className.  *)
(***************************************************************************)
Max(a, b) == IF a >= b THEN a ELSE b

InitialLoopState(realm) ==
  [totalMap |-> EmptyObject, classMap |-> EmptyObject, foundClasses |-> << >>,
   validRowCount |-> 0, realm |-> realm, threw |-> FALSE, rows |-> << >>]

RowRecord(line, verdict, rawDate, dateKey, amount, className) ==
  [line |-> line, verdict |-> verdict, rawDate |-> rawDate,
   rule |-> IF rawDate = << >> THEN 0 ELSE dateRuleOf(rawDate),
   dateKey |-> dateKey, amount |-> amount, className |-> className]

\* cols[classIndex] or the placeholder (line 95); undefined past the row's end
rawClassOf(cols, classIndex) ==
  IF classIndex = -1 THEN [defined |-> TRUE, s |-> Str_Unclassified]
  ELSE IF classIndex < Len(cols) THEN [defined |-> TRUE, s |-> cols[classIndex + 1]]
  ELSE [defined |-> FALSE, s |-> << >>]

\* cols[index] (lines 92-93); a row that lacks the field reads undefined,
\* which is falsy like the empty string and is written as the empty string
fieldAt(cols, index) ==
  IF index >= 0 /\ index < Len(cols) THEN cols[index + 1] ELSE << >>

\* the class name with one placeholder for both cases: a variant of
\* classNameOf
classNameOfOnePlaceholder(rawClass) ==
  IF rawClass.defined /\ rawClass.s # << >> /\ Trim(rawClass.s) # << >>
  THEN Trim(rawClass.s) ELSE Str_Unclassified

\* line 130
classNameOf(rawClass) ==
  IF rawClass.defined /\ rawClass.s # << >> /\ Trim(rawClass.s) # << >>
  THEN Trim(rawClass.s) ELSE Str_Unknown

\* line 127
amountOf(rawAmount) == ParseFloat(KeepChars(rawAmount, Chars \ {","}))

\* Set.prototype.add
SetAdd(set, x) == IF \E k \in 1..Len(set) : set[k] = x THEN set ELSE Append(set, x)

\* lines 134-135: the total of the month
aggregateTotal(totalMap, dateKey, amount, realm) ==
  LET t1 == IF Falsy(GetNumber(totalMap, dateKey, realm))
            THEN PutOwn(totalMap, dateKey, IntNum(0)) ELSE totalMap
  IN PutOwn(t1, dateKey, AddNum(GetNumber(t1, dateKey, realm), amount))

\* lines 138-140: the total of the month within the class; threw when
\* classMap[className] is a number inherited from Object.prototype, on which
\* module (strict) code cannot create a property
aggregateClass(classMap, className, dateKey, amount, realm) ==
  LET ref   == ClassRef(classMap, className, realm)
      fresh == ref.kind = "none" \/ (ref.kind = "prim" /\ Falsy(ref.num))
      cm1   == IF fresh THEN PutOwn(classMap, className, EmptyObject) ELSE classMap
      kind  == IF fresh THEN "own" ELSE ref.kind
  IN IF kind = "prim"
     THEN [classMap |-> cm1, realm |-> realm, threw |-> TRUE]
     ELSE LET s1 == IF Falsy(GetClassAmount(kind, cm1, className, dateKey, realm))
                    THEN SetClassAmount(kind, cm1, className, dateKey, IntNum(0), realm)
                    ELSE [classMap |-> cm1, realm |-> realm]
              s2 == SetClassAmount(kind, s1.classMap, className, dateKey,
                      AddNum(GetClassAmount(kind, s1.classMap, className, dateKey, s1.realm),
                             amount),
                      s1.realm)
          IN [classMap |-> s2.classMap, realm |-> s2.realm, threw |-> FALSE]

\* lines 132-144: a row with a date key and a number is folded into the maps
aggregateRow(st, line, rawDate, dateKey, amount, className) ==
  LET tm == aggregateTotal(st.totalMap, dateKey, amount, st.realm)
      cl == aggregateClass(st.classMap, className, dateKey, amount, st.realm)
  IN IF cl.threw
     THEN [st EXCEPT !.totalMap = tm, !.classMap = cl.classMap, !.threw = TRUE,
                     !.rows = Append(@, RowRecord(line, "threw", rawDate, dateKey,
                                                  amount, className))]
     ELSE [st EXCEPT !.totalMap = tm, !.classMap = cl.classMap, !.realm = cl.realm,
                     !.foundClasses = SetAdd(@, className),
                     !.validRowCount = @ + 1,
                     !.rows = Append(@, RowRecord(line, "ok", rawDate, dateKey,
                                                  amount, className))]

\* a skipped iteration: only the record of the visit is added
skipRow(st, line, verdict, rawDate, dateKey, amount, className) ==
  [st EXCEPT !.rows = Append(@, RowRecord(line, verdict, rawDate, dateKey,
                                          amount, className))]

\* one iteration of the loop (lines 84-144) on the text of one line
processRow(st, rawLine, dateIndex, amountIndex, classIndex, host) ==
  LET line == Trim(rawLine)
      cols == parseCSVLine(line)
  IN IF line = << >> THEN skipRow(st, rawLine, "blank", << >>, << >>, NaN, << >>)
     ELSE IF Len(cols) <= Max(dateIndex, amountIndex)
     THEN skipRow(st, rawLine, "short", << >>, << >>, NaN, << >>)
     ELSE LET rawDate   == fieldAt(cols, dateIndex)
              rawAmount == fieldAt(cols, amountIndex)
              rawClass  == rawClassOf(cols, classIndex)
              dateKey   == dateKeyOf(rawDate, host)
              amount    == amountOf(rawAmount)
              className == classNameOf(rawClass)
          IN IF rawDate = << >> \/ rawAmount = << >>
             THEN skipRow(st, rawLine, "empty", rawDate, << >>, NaN, << >>)
             ELSE IF dateKey = << >>
             THEN skipRow(st, rawLine, "date", rawDate, << >>, NaN, << >>)
             ELSE IF IsNaN(amount)
             THEN skipRow(st, rawLine, "amount", rawDate, dateKey, amount, className)
             ELSE aggregateRow(st, rawLine, rawDate, dateKey, amount, className)

\* the loop of line 83 from lines[k] on; a thrown exception leaves the loop
RECURSIVE rowLoop(_, _, _, _, _, _, _)
rowLoop(st, lines, k, dateIndex, amountIndex, classIndex, host) ==
  IF k > Len(lines) \/ st.threw THEN st
  ELSE rowLoop(processRow(st, lines[k], dateIndex, amountIndex, classIndex, host),
               lines, k + 1, dateIndex, amountIndex, classIndex, host)

(***************************************************************************)
(* Dataset assembly (csvService.ts 147-177).                               *)
(*                                                                         *)
(* A dataset is [totalByDate, byClass, availableClasses].  byClass is an   *)
(* object literal: byClass.own are its own properties (class name ->       *)
(* series) and byClass.proto its prototype when the assignment             *)
(* byClass["__proto__"] = classData replaced it.                           *)
(***************************************************************************)
\* the comparator with its operands exchanged (descending order): a variant of
\* sortFn
sortFnDescending(a, b) == CompareStr(b.date, a.date)

\* a.date.localeCompare(b.date) (line 153).  Date keys are made of digits and
\* hyphens, which collate in code unit order.
sortFn(a, b) == CompareStr(a.date, b.date)

\* Array.prototype.sort(sortFn) is stable: x goes after the elements that do
\* not compare greater than it
RECURSIVE InsertMonthly(_, _)
InsertMonthly(sorted, x) ==
  IF sorted = << >> THEN << x >>
  ELSE IF sortFn(Head(sorted), x) <= 0
       THEN << Head(sorted) >> \o InsertMonthly(Tail(sorted), x)
       ELSE << x >> \o sorted

RECURSIVE SortMonthly(_)
SortMonthly(seq) ==
  IF seq = << >> THEN << >>
  ELSE InsertMonthly(SortMonthly(SubSeq(seq, 1, Len(seq) - 1)), seq[Len(seq)])

\* Array.prototype.sort() on strings: code unit order (line 176)
RECURSIVE InsertString(_, _)
InsertString(sorted, x) ==
  IF sorted = << >> THEN << x >>
  ELSE IF CompareStr(Head(sorted), x) <= 0
       THEN << Head(sorted) >> \o InsertString(Tail(sorted), x)
       ELSE << x >> \o sorted

RECURSIVE SortStrings(_)
SortStrings(seq) ==
  IF seq = << >> THEN << >>
  ELSE InsertString(SortStrings(SubSeq(seq, 1, Len(seq) - 1)), seq[Len(seq)])

\* Object.entries(o).map(([date, amount]) => ({ date, amount }))
Entries(o) == [k \in 1..Len(o) |-> [date |-> o[k].k, amount |-> o[k].v]]

\* lines 156-158
totalDataOf(totalMap) == SortMonthly(Entries(totalMap))

\* lines 163-165: Object.entries(classMap[cls]) sorted; classMap[cls] is an own
\* entry, Object.prototype or the Object function
classDataOf(classMap, cls, realm) ==
  LET kind == ClassRef(classMap, cls, realm).kind
  IN SortMonthly(Entries(IF kind = "own" THEN OwnValue(classMap, cls)
                         ELSE IF kind = "proto" THEN realm.proto
                         ELSE realm.ctor))

EmptyByClass == [own |-> EmptyObject, proto |-> [set |-> FALSE, v |-> << >>]]

\* byClass[cls] = classData (line 170): the name __proto__ reaches the
\* prototype setter, any other name creates or updates an own property
AssignByClass(byClass, cls, classData) ==
  IF cls = Str___proto__ THEN [byClass EXCEPT !.proto = [set |-> TRUE, v |-> classData]]
  ELSE [byClass EXCEPT !.own = PutOwn(@, cls, classData)]

\* lines 161-171: foundClasses.forEach from position k on
RECURSIVE byClassLoop(_, _, _, _, _)
byClassLoop(byClass, foundClasses, k, classMap, realm) ==
  IF k > Len(foundClasses) THEN byClass
  ELSE byClassLoop(AssignByClass(byClass, foundClasses[k],
                                 classDataOf(classMap, foundClasses[k], realm)),
                   foundClasses, k + 1, classMap, realm)

\* lines 173-177
assemble(st) ==
  [totalByDate |-> totalDataOf(st.totalMap),
   byClass |-> byClassLoop(EmptyByClass, st.foundClasses, 1, st.classMap, st.realm),
   availableClasses |-> SortStrings(st.foundClasses)]

\* dataset.byClass[cls] as a consumer reads it (App.tsx 67): an own property,
\* or for the name __proto__ the prototype of byClass; the empty series
\* stands for a value that is no series
ByClassGet(dataset, cls) ==
  IF HasOwn(dataset.byClass.own, cls) THEN OwnValue(dataset.byClass.own, cls)
  ELSE IF cls = Str___proto__ /\ dataset.byClass.proto.set THEN dataset.byClass.proto.v
  ELSE << >>

(***************************************************************************)
(* reader.onload (csvService.ts 37-183) as a function of the text, the     *)
(* realm and the host: the outcome of the promise, the realm afterwards    *)
(* and the locals of the handler when it returned.                         *)
(***************************************************************************)
NoDataset == [totalByDate |-> << >>, byClass |-> EmptyByClass, availableClasses |-> << >>]

Pending == [status |-> "pending", error |-> "", dataset |-> NoDataset]

Rejected(message) == [status |-> "rejected", error |-> message, dataset |-> NoDataset]

Resolved(dataset) == [status |-> "resolved", error |-> "", dataset |-> dataset]

NoLocals ==
  [stage |-> "none", lines |-> << >>, dateIndex |-> -1, amountIndex |-> -1,
   classIndex |-> -1, loop |-> InitialLoopState(FreshRealm), realm0 |-> FreshRealm]

\* the settlement without the check of validRowCount: a variant of settleLoop
settleLoopWithoutRowCheck(st) ==
  IF st.threw THEN Rejected("PROCESSING_ERROR") ELSE Resolved(assemble(st))

\* lines 147-150 and 173-177, or the catch clause of lines 179-182
settleLoop(st) ==
  IF st.threw THEN Rejected("PROCESSING_ERROR")
  ELSE IF st.validRowCount = 0 THEN Rejected("NO_DATA")
  ELSE Resolved(assemble(st))

\* the validation failing only when both columns are missing: a variant of
\* missingColumn
missingBothColumns(dateIndex, amountIndex) == dateIndex = -1 /\ amountIndex = -1

\* line 72
missingColumn(dateIndex, amountIndex) == dateIndex = -1 \/ amountIndex = -1

\* lines 40 and 47
emptyText(text) == text = << >> \/ Trim(text) = << >>

\* the line count compared with 1 instead of 2: a variant of tooFewLines
tooFewLinesOffByOne(lines) == Len(lines) < 1

tooFewLines(lines) == Len(lines) < 2

onload(text, realm, host) ==
  LET lines       == SplitLines(text)
      headers     == headersOf(lines[1])
      dateIndex   == dateIndexOf(headers)
      amountIndex == amountIndexOf(headers)
      classIndex  == classIndexOf(headers)
      st          == rowLoop(InitialLoopState(realm), lines, 2,
                             dateIndex, amountIndex, classIndex, host)
  IN IF emptyText(text)
     THEN [outcome |-> Rejected("EMPTY_FILE"), realm |-> realm,
           locals |-> [NoLocals EXCEPT !.stage = "text", !.realm0 = realm]]
     ELSE IF tooFewLines(lines)
     THEN [outcome |-> Rejected("TOO_FEW_LINES"), realm |-> realm,
           locals |-> [NoLocals EXCEPT !.stage = "lines", !.lines = lines,
                                       !.realm0 = realm]]
     ELSE IF missingColumn(dateIndex, amountIndex)
     THEN [outcome |-> Rejected("MISSING_COLUMN"), realm |-> realm,
           locals |-> [NoLocals EXCEPT !.stage = "headers", !.lines = lines,
                                       !.dateIndex = dateIndex,
                                       !.amountIndex = amountIndex,
                                       !.classIndex = classIndex,
                                       !.realm0 = realm]]
     ELSE [outcome |-> settleLoop(st), realm |-> st.realm,
           locals |-> [stage |-> "rows", lines |-> lines, dateIndex |-> dateIndex,
                       amountIndex |-> amountIndex, classIndex |-> classIndex,
                       loop |-> st, realm0 |-> realm]]

(***************************************************************************)
(* Inputs: the texts a file may hold.  Each family varies one part of a    *)
(* file (the rows that are aggregated, the class names that reach the      *)
(* realm, the date field, the amount field, the header line, the line      *)
(* structure) and keeps the rest fixed.                                    *)
(***************************************************************************)
Header_std == <<"b", "i", "l", "l", "P", "e", "r", "i", "o", "d", ",", "a", "m", "o", "u", "n", "t", ",", "a", "c", "c", "o", "u", "n", "t", "C", "l", "a", "s", "s">>
Header_noclass == <<"b", "i", "l", "l", "P", "e", "r", "i", "o", "d", ",", "a", "m", "o", "u", "n", "t">>
Header_monthly == <<"M", "o", "n", "t", "h", "l", "y", ",", "A", "m", "o", "u", "n", "t", ",", "A", "c", "t", "_", "C", "o", "d", "e">>
Header_spaced == <<"B", "i", "l", "l", " ", "P", "e", "r", "i", "o", "d", ",", " ", "A", "M", "O", "U", "N", "T", " ", ",", "A", "c", "c", "o", "u", "n", "t", "_", "C", "l", "a", "s", "s">>
Header_both == <<"m", "o", "n", "t", "h", "l", "y", ",", "b", "i", "l", "l", "P", "e", "r", "i", "o", "d", ",", "a", "m", "o", "u", "n", "t">>
Header_classfirst == <<"a", "c", "c", "o", "u", "n", "t", "C", "l", "a", "s", "s", ",", "b", "i", "l", "l", "P", "e", "r", "i", "o", "d", ",", "a", "m", "o", "u", "n", "t">>
Header_nodate == <<"p", "e", "r", "i", "o", "d", ",", "a", "m", "o", "u", "n", "t", ",", "a", "c", "c", "o", "u", "n", "t", "C", "l", "a", "s", "s">>
Header_noamount == <<"b", "i", "l", "l", "P", "e", "r", "i", "o", "d", ",", "v", "a", "l", "u", "e", ",", "a", "c", "c", "o", "u", "n", "t", "C", "l", "a", "s", "s">>
Header_neither == <<"c", "u", "s", "t", "o", "m", "e", "r", ",", "v", "a", "l", "u", "e">>
Line_A_jan_3 == <<"2", "0", "2", "3", "0", "1", ",", "3", ",", "A">>
Line_A_feb_5 == <<"2", "0", "2", "3", "0", "2", ",", "5", ",", "A">>
Line_B_jan_m2 == <<"2", "0", "2", "3", "0", "1", ",", "-", "2", ",", "B">>
Line_B_dec_4 == <<"2", "0", "2", "2", "1", "2", "1", "5", ",", "4", ",", "B">>
Line_blank_class == <<"2", "0", "2", "3", "0", "1", ",", "1", ",">>
Line_no_class_field == <<"2", "0", "2", "3", "0", "2", ",", "2">>
Line_bad_amount == <<"2", "0", "2", "3", "0", "1", ",", "a", "b", "c", ",", "C">>
Line_short == <<"2", "0", "2", "3", "0", "1">>
Line_empty_date == <<",", "3", ",", "A">>
Line_bad_date == <<"2", "0", "2", "3", ",", "3", ",", "A">>
Line_quoted_class == <<"2", "0", "2", "3", "0", "1", ",", "6", ",", "\"", "A", ",", " ", "B", "\"">>
Line_proto_jan_5 == <<"2", "0", "2", "3", "0", "1", ",", "5", ",", "_", "_", "p", "r", "o", "t", "o", "_", "_">>
Line_ctor_feb_7 == <<"2", "0", "2", "3", "0", "2", ",", "7", ",", "c", "o", "n", "s", "t", "r", "u", "c", "t", "o", "r">>
Line_class_is_key == <<"2", "0", "2", "3", "0", "1", ",", "2", ",", "2", "0", "2", "3", "-", "0", "1">>
Line_classfirst == <<"A", ",", "2", "0", "2", "3", "0", "1", ",", "3">>
Date_202309 == <<"2", "0", "2", "3", "0", "9">>
Date_20230915 == <<"2", "0", "2", "3", "0", "9", "1", "5">>
Date_iso_day == <<"2", "0", "2", "3", "-", "0", "9", "-", "1", "5">>
Date_mm_yyyy == <<"0", "9", "/", "2", "0", "2", "3">>
Date_m_yyyy == <<"9", "/", "2", "0", "2", "3">>
Date_y_m_d == <<"2", "0", "2", "3", "-", "9", "-", "5">>
Date_m_d_y == <<"1", "/", "2", "/", "2", "0", "2", "3">>
Date_year_999 == <<"0", "9", "9", "9", "-", "0", "6", "-", "1", "5", "T", "1", "2", ":", "0", "0">>
Date_utc_newyear == <<"2", "0", "2", "3", "-", "0", "1", "-", "0", "1", "T", "0", "0", ":", "0", "0", "Z">>
Date_year_only == <<"2", "0", "2", "3">>
Date_words == <<"a", "-", "b">>
Date_seven == <<"2", "0", "2", "3", "0", "9", "1">>
Amount_3 == <<"3">>
Amount_0 == <<"0">>
Amount_m3 == <<"-", "3">>
Amount_abc == <<"a", "b", "c">>
Amount_inf == <<"I", "n", "f", "i", "n", "i", "t", "y">>
Amount_minf == <<"-", "I", "n", "f", "i", "n", "i", "t", "y">>
Amount_12abc == <<"1", "2", "a", "b", "c">>
Amount_quoted == <<"\"", "1", ",", "0", "0", "0", "\"">>
Prefix_jan == <<"2", "0", "2", "3", "0", "1", ",">>
Suffix_one == <<",", "1">>

\* the sequences of at most n elements of the set S
RECURSIVE SeqsUpTo(_, _)
SeqsUpTo(S, n) ==
  IF n = 0 THEN { << >> }
  ELSE LET shorter == SeqsUpTo(S, n - 1)
       IN shorter \cup { Append(q, x) : q \in shorter, x \in S }

\* the lines joined by line feeds
RECURSIVE JoinLines(_)
JoinLines(ls) ==
  IF ls = << >> THEN << >>
  ELSE IF Len(ls) = 1 THEN ls[1]
  ELSE ls[1] \o << "\n" >> \o JoinLines(Tail(ls))

FileOf(header, rows) == JoinLines(<< header >> \o rows)

AggLines ==
  { Line_A_jan_3, Line_A_feb_5, Line_B_jan_m2, Line_B_dec_4, Line_blank_class,
    Line_no_class_field, Line_bad_amount, Line_short, Line_empty_date,
    Line_bad_date, Line_quoted_class }

\* the rows the longest files are made of
CoreLines ==
  { Line_A_jan_3, Line_A_feb_5, Line_B_jan_m2, Line_B_dec_4, Line_blank_class,
    Line_bad_date }

AggTexts ==
  { FileOf(Header_std, rows) :
      rows \in SeqsUpTo(CoreLines, MaxRows) \cup SeqsUpTo(AggLines, 2) }

RealmLines == { Line_A_jan_3, Line_proto_jan_5, Line_ctor_feb_7, Line_class_is_key }

RealmTexts == { FileOf(Header_std, rows) : rows \in SeqsUpTo(RealmLines, 2) }

DateFields ==
  { Date_202309, Date_20230915, Date_iso_day, Date_mm_yyyy, Date_m_yyyy,
    Date_y_m_d, Date_m_d_y, Date_year_999, Date_utc_newyear, Date_year_only,
    Date_words, Date_seven }

DateLines == { d \o Suffix_one : d \in DateFields }

DateTexts == { FileOf(Header_noclass, rows) : rows \in SeqsUpTo(DateLines, 2) }

AmountFields ==
  { Amount_3, Amount_0, Amount_m3, Amount_abc, Amount_inf, Amount_minf,
    Amount_12abc, Amount_quoted }

AmountLines == { Prefix_jan \o a : a \in AmountFields }

AmountTexts == { FileOf(Header_noclass, rows) : rows \in SeqsUpTo(AmountLines, 2) }

HeaderLines ==
  { Header_std, Header_noclass, Header_monthly, Header_spaced, Header_both,
    Header_classfirst, Header_nodate, Header_noamount, Header_neither }

HeaderTexts ==
  { FileOf(h, rows) : h \in HeaderLines,
                      rows \in { << Line_A_jan_3 >>, << Line_classfirst >>,
                                 << Line_A_jan_3, Line_B_dec_4 >> } }

\* the line structure: no text, blank text, a single line, a header line
\* followed by a line break, CR LF line ends, blank lines between rows
ShapeTexts ==
  { << >>, << " " >>, << "\n" >>, << " ", "\n", " " >> }
  \cup HeaderLines
  \cup { h \o << "\n" >> : h \in HeaderLines }
  \cup { Header_std \o << "\r", "\n" >>,
         Header_std \o << "\r", "\n" >> \o Line_A_jan_3 \o << "\r", "\n" >>,
         Header_std \o << "\n", "\n" >> \o Line_A_jan_3 \o << "\n" >>
           \o Line_bad_date \o << "\n" >>,
         Header_noclass \o << "\n" >> \o Line_A_jan_3 \o << "\n" >> \o Line_B_dec_4 }

Texts == AggTexts \cup RealmTexts \cup DateTexts \cup AmountTexts
           \cup HeaderTexts \cup ShapeTexts

(***************************************************************************)
(* The state machine.                                                      *)
(*   host     the engine and time zone the page runs in                    *)
(*   realm    Object.prototype and Object, shared by every invocation      *)
(*   pc       idle, reading (readAsText issued, no event yet) or settled   *)
(*   text     the content of the file of the current invocation            *)
(*   outcome  the promise parseCSV returned: pending, resolved with a      *)
(*            dataset or rejected with an error                            *)
(*   locals   the locals of reader.onload when it returned                 *)
(*   parses   the number of parseCSV calls so far                          *)
(***************************************************************************)
VARIABLES host, realm, pc, text, outcome, locals, parses

\* one line of text on its way through parseCSVLine and the header resolution
\*   inputLine  the line
\*   fields  what parseCSVLine returned for it, once it was called
\*   roles   the column indices lines 58-69 resolved from it, once they ran
VARIABLES inputLine, fields, roles

\* the App component (App.tsx 10-19), its environment and its forecast requests
\*   appState, fullDataset, selectedClass, currentHistory, forecastResult,
\*   error        the state of the component (useState, lines 10-19)
\*   env          process.env.API_KEY, the GoogleGenAI constructor and the
\*                wording of the engine's JSON.parse errors
\*   requests     the getForecast calls that issued generateContent, in order,
\*                each with the history passed in and whether it is pending
\*   lastSettled  the request generateContent settled last (0: none), what
\*                generateContent did and how getForecast settled
\*   calls        the number of getForecast calls so far
\*   currentRequest  the request the call for currentHistory issued (0: none)
\*   resultRequest   the request whose completion set forecastResult (0: none)
VARIABLES appState, fullDataset, selectedClass, currentHistory, forecastResult,
          error, env, requests, lastSettled, calls, currentRequest, resultRequest

parserVars == << host, realm, pc, text, outcome, locals, parses >>

lineVars == << inputLine, fields, roles >>

appVars == << appState, fullDataset, selectedClass, currentHistory, forecastResult,
              error, env, requests, lastSettled, calls, currentRequest,
              resultRequest >>

vars == << parserVars, lineVars, appVars >>

\* null and non-null values of the nullable state of the component
NullDataset == [isNull |-> TRUE, v |-> NoDataset]

NoForecast == [forecast |-> << >>, reasoning |-> "", trend |-> ""]

NullForecast == [isNull |-> TRUE, v |-> NoForecast]

NoError == [code |-> "", detail |-> << >>]

NullError == [isNull |-> TRUE, v |-> NoError]

NonNull(value) == [isNull |-> FALSE, v |-> value]

Str_ALL == << "A", "L", "L" >>

\* a deployment with an API key, a client that constructs and an engine
\* whose JSON.parse errors quote the text
Env_default == [apiKey |-> << "k" >>, clientInit |-> "ok", quotesText |-> TRUE]

\* the component as mounted (lines 10-19), no request made
AppMounted ==
  /\ appState = "IDLE"
  /\ fullDataset = NullDataset
  /\ selectedClass = Str_ALL
  /\ currentHistory = << >>
  /\ forecastResult = NullForecast
  /\ error = NullError
  /\ requests = << >>
  /\ lastSettled = [request |-> 0]
  /\ calls = 0
  /\ currentRequest = 0
  /\ resultRequest = 0

AppIdle ==
  /\ AppMounted
  /\ env = Env_default

NoFields == [done |-> FALSE, val |-> << >>]

NoRoles == [done |-> FALSE, dateIndex |-> -1, amountIndex |-> -1, classIndex |-> -1]

\* no invocation of parseCSV yet
ParserIdle ==
  /\ host \in Hosts
  /\ realm = FreshRealm
  /\ pc = "idle"
  /\ text = << >>
  /\ outcome = Pending
  /\ locals = NoLocals
  /\ parses = 0

\* no line under way
LineIdle ==
  /\ inputLine = << >>
  /\ fields = NoFields
  /\ roles = NoRoles

Init ==
  /\ ParserIdle
  /\ LineIdle
  /\ AppIdle

\* parseCSV(file) (lines 33-36 and 186): the promise is created and the read
\* of the file is started
parseCSVCall(fileText) ==
  /\ pc \in {"idle", "settled"}
  /\ parses < MaxParses
  /\ pc' = "reading"
  /\ text' = fileText
  /\ outcome' = Pending
  /\ locals' = NoLocals
  /\ parses' = parses + 1
  /\ UNCHANGED << host, realm >>

parseCSV(fileText) ==
  /\ parseCSVCall(fileText)
  /\ UNCHANGED lineVars
  /\ UNCHANGED appVars

\* reader.onload (lines 37-183)
onloadEvent ==
  /\ pc = "reading"
  /\ LET r == onload(text, realm, host)
     IN /\ outcome' = r.outcome
        /\ realm' = r.realm
        /\ locals' = r.locals
  /\ pc' = "settled"
  /\ UNCHANGED << host, text, parses >>

ReaderOnLoad ==
  /\ onloadEvent
  /\ UNCHANGED lineVars
  /\ UNCHANGED appVars

\* reader.onerror (line 185)
onerrorEvent ==
  /\ pc = "reading"
  /\ outcome' = Rejected("READ_ERROR")
  /\ pc' = "settled"
  /\ UNCHANGED << host, realm, text, locals, parses >>

ReaderOnError ==
  /\ onerrorEvent
  /\ UNCHANGED lineVars
  /\ UNCHANGED appVars

Next ==
  \/ \E fileText \in Texts : parseCSV(fileText)
  \/ ReaderOnLoad
  \/ ReaderOnError

Spec == Init /\ [][Next]_vars

(***************************************************************************)
(* Properties.                                                             *)
(***************************************************************************)
\* reader.onload has run for the current invocation
Loaded == pc = "settled" /\ locals.stage # "none"

IsResolved == pc = "settled" /\ outcome.status = "resolved"

\* the records of the data lines the loop visited
VisitedRows == locals.loop.rows

RowsWithVerdict(v) == { k \in 1..Len(VisitedRows) : VisitedRows[k].verdict = v }

MonthsOf(series) == { series[k].date : k \in 1..Len(series) }

\* the amount a series holds for month m; 0 when the month is absent
SeriesAmount(series, m) ==
  IF m \in MonthsOf(series)
  THEN series[CHOOSE k \in 1..Len(series) : series[k].date = m].amount
  ELSE IntNum(0)

\* the class names of a dataset: the keys of byClass and availableClasses
ClassNamesOf(dataset) ==
  { dataset.byClass.own[k].k : k \in 1..Len(dataset.byClass.own) }
    \cup { dataset.availableClasses[k] : k \in 1..Len(dataset.availableClasses) }

AllSeriesOf(dataset) ==
  { dataset.totalByDate } \cup { ByClassGet(dataset, c) : c \in ClassNamesOf(dataset) }

AllMonthsOf(dataset) == UNION { MonthsOf(series) : series \in AllSeriesOf(dataset) }

\* the sum over the classes of a set of each class's amount for month m
RECURSIVE ClassSum(_, _, _)
ClassSum(dataset, classes, m) ==
  IF classes = {} THEN IntNum(0)
  ELSE LET c == CHOOSE x \in classes : TRUE
       IN AddNum(SeriesAmount(ByClassGet(dataset, c), m),
                 ClassSum(dataset, classes \ {c}, m))

\* every aggregated row of the file has an integer amount
IntegerRows ==
  \A k \in 1..Len(VisitedRows) :
     VisitedRows[k].verdict = "ok" => VisitedRows[k].amount.t = "int"

\* C1: in every resolved dataset built from rows with integer amounts, the
\* amount of each month in totalByDate equals the sum over all classes of
\* the class's amount for that month (0 for a class without the month).
C1_TotalIsSumOfClasses ==
  (IsResolved /\ IntegerRows) =>
     \A m \in AllMonthsOf(outcome.dataset) :
        SeriesAmount(outcome.dataset.totalByDate, m)
          = ClassSum(outcome.dataset, ClassNamesOf(outcome.dataset), m)

StrictlyAscending(series) ==
  \A j \in 1..Len(series) : \A k \in 1..Len(series) :
     j < k => CompareStr(series[j].date, series[k].date) < 0

\* C2: in every resolved dataset, totalByDate and every series of byClass
\* are strictly ascending by date key (no date twice, each date greater than
\* the one before it).
C2_SeriesStrictlyAscending ==
  IsResolved => \A series \in AllSeriesOf(outcome.dataset) : StrictlyAscending(series)

\* C2 witness: a resolved dataset of at least two months whose total map was
\* filled in another order than the sorted one
C2_Witness ==
  /\ IsResolved
  /\ Len(outcome.dataset.totalByDate) >= 2
  /\ Entries(locals.loop.totalMap) # outcome.dataset.totalByDate
  /\ \E c \in ClassNamesOf(outcome.dataset) :
        /\ Len(ByClassGet(outcome.dataset, c)) >= 2
        /\ Entries(OwnValue(locals.loop.classMap, c)) # ByClassGet(outcome.dataset, c)

\* the fields of a data line as the loop sees them
ColsOf(line) == parseCSVLine(Trim(line))

\* a row-level defect: a short row, an empty date or amount, a date no rule
\* gives a key for, or an amount that is not a number
DefectiveLine(line) ==
  LET cols == ColsOf(line)
  IN \/ Len(cols) <= Max(locals.dateIndex, locals.amountIndex)
     \/ cols[locals.dateIndex + 1] = << >>
     \/ cols[locals.amountIndex + 1] = << >>
     \/ dateKeyOf(cols[locals.dateIndex + 1], host) = << >>
     \/ amountOf(cols[locals.amountIndex + 1]).t = "nan"

\* the positions of the data lines without a defect
ValidLineNumbers ==
  { k \in 2..Len(locals.lines) : ~DefectiveLine(locals.lines[k]) }

LineDateKey(line) == dateKeyOf(ColsOf(line)[locals.dateIndex + 1], host)

\* the class a data line names: the trimmed class field, "Unknown" when it is
\* blank or missing, "Unclassified" when the header has no class column
LineClass(line) ==
  LET cols  == ColsOf(line)
      field == IF locals.classIndex < Len(cols)
               THEN Trim(cols[locals.classIndex + 1]) ELSE << >>
  IN IF locals.classIndex = -1 THEN Str_Unclassified
     ELSE IF field = << >> THEN Str_Unknown ELSE field

RECURSIVE KeepValidLines(_, _)
KeepValidLines(lines, k) ==
  IF k > Len(lines) THEN << >>
  ELSE IF DefectiveLine(lines[k]) THEN KeepValidLines(lines, k + 1)
  ELSE << lines[k] >> \o KeepValidLines(lines, k + 1)

\* the file with every defective row deleted
TextWithoutDefects ==
  JoinLines(<< locals.lines[1] >> \o KeepValidLines(locals.lines, 2))

C3_Succeeds == outcome.status = "resolved"

C3_SameAsWithoutDefects ==
  outcome = onload(TextWithoutDefects, locals.realm0, host).outcome

C3_MonthsExact ==
  /\ MonthsOf(outcome.dataset.totalByDate)
       = { LineDateKey(locals.lines[k]) : k \in ValidLineNumbers }
  /\ \A c \in ClassNamesOf(outcome.dataset) :
        MonthsOf(ByClassGet(outcome.dataset, c))
          = { LineDateKey(locals.lines[k]) :
                k \in { j \in ValidLineNumbers : LineClass(locals.lines[j]) = c } }

C3_ClassesExact ==
  /\ { outcome.dataset.availableClasses[k] :
         k \in 1..Len(outcome.dataset.availableClasses) }
       = { LineClass(locals.lines[k]) : k \in ValidLineNumbers }
  /\ Len(outcome.dataset.availableClasses)
       = Cardinality({ LineClass(locals.lines[k]) : k \in ValidLineNumbers })

\* C3: for a file with a resolvable header and at least one valid row,
\* parseCSV succeeds, the dataset is the one produced from the same file with
\* every defective row deleted, the months present are exactly the month
\* keys of the valid rows and availableClasses is exactly the set of their
\* classes.
C3_DefectiveRowsSkipped ==
  (Loaded /\ locals.stage = "rows" /\ ValidLineNumbers # {}) =>
     /\ C3_Succeeds
     /\ C3_SameAsWithoutDefects
     /\ C3_MonthsExact
     /\ C3_ClassesExact

\* the header line of the text resolves the date and the amount column
HeaderResolves(t) ==
  /\ dateIndexOf(headersOf(SplitLines(t)[1])) # -1
  /\ amountIndexOf(headersOf(SplitLines(t)[1])) # -1

\* the text is one header line, with or without a line break after it
HeaderOnly(t) ==
  \/ Len(SplitLines(t)) = 1
  \/ (Len(SplitLines(t)) = 2 /\ SplitLines(t)[2] = << >>)

\* the text has data rows, and the date field of each is one no rule gives a
\* key for
AllDatesUnparseable(t) ==
  LET lines == SplitLines(t)
      di    == dateIndexOf(headersOf(lines[1]))
  IN /\ Len(lines) >= 2
     /\ \E k \in 2..Len(lines) : Trim(lines[k]) # << >>
     /\ \A k \in 2..Len(lines) :
           Trim(lines[k]) # << >> =>
              /\ Len(ColsOf(lines[k])) > di
              /\ ColsOf(lines[k])[di + 1] # << >>
              /\ dateKeyOf(ColsOf(lines[k])[di + 1], host) = << >>

\* C4 as stated: a file that is only a header row (with or without a trailing
\* line break), or whose data rows all have unparseable dates, is rejected
\* with the "no processable data" error.
C4_HeaderOnlyIsNoData ==
  (Loaded /\ HeaderResolves(text) /\ (HeaderOnly(text) \/ AllDatesUnparseable(text)))
     => outcome = Rejected("NO_DATA")

\* C4 amended: such a file is always rejected and never resolved; the error
\* is "no processable data" when the text has a line break (at least two
\* lines), and the "not enough data" error of line 48 when the header row
\* is the whole text.
C4_HeaderOnlyRejected ==
  (Loaded /\ HeaderResolves(text) /\ (HeaderOnly(text) \/ AllDatesUnparseable(text)))
     => /\ outcome.status = "rejected"
        /\ outcome.dataset = NoDataset
        /\ (Len(SplitLines(text)) >= 2 => outcome.error = "NO_DATA")
        /\ (Len(SplitLines(text)) < 2 => outcome.error = "TOO_FEW_LINES")

\* C4 witness: a file whose two data rows both have unparseable dates was
\* rejected with the "no processable data" error
C4_Witness ==
  /\ Loaded
  /\ HeaderResolves(text)
  /\ AllDatesUnparseable(text)
  /\ Len(VisitedRows) = 2
  /\ outcome = Rejected("NO_DATA")

\* a resolvable header row alone, once with and once without a line break
C4_WitnessHeaderOnly ==
  /\ Loaded /\ HeaderResolves(text) /\ HeaderOnly(text)
  /\ Len(SplitLines(text)) = 2
  /\ outcome = Rejected("NO_DATA")

\* the header has no column for the date role or none for the amount role
HeaderLacksColumn(t) ==
  LET headers == headersOf(SplitLines(t)[1])
  IN dateIndexOf(headers) = -1 \/ amountIndexOf(headers) = -1

\* nothing of the row loop has happened: no line visited, no map entry, no
\* class, no valid row, the realm as it was
NoRowProcessed ==
  /\ locals.loop.rows = << >>
  /\ locals.loop.totalMap = EmptyObject
  /\ locals.loop.classMap = EmptyObject
  /\ locals.loop.foundClasses = << >>
  /\ locals.loop.validRowCount = 0
  /\ realm = locals.realm0

\* a header with date and amount columns but no class column never gives the
\* missing-column error, and the file resolves as soon as a row is valid
ClassColumnOptional ==
  (Loaded /\ locals.stage = "rows" /\ locals.classIndex = -1) =>
     /\ outcome.error # "MISSING_COLUMN"
     /\ (ValidLineNumbers # {} => outcome.status = "resolved")

DatedRows == RowsWithVerdict("date") \cup RowsWithVerdict("amount")
               \cup RowsWithVerdict("ok") \cup RowsWithVerdict("threw")

\* text of the form MM/YYYY: two digits, a slash, four digits
IsMonthYearForm(s) ==
  /\ Len(s) = 7
  /\ s[3] = "/"
  /\ \A k \in {1, 2, 4, 5, 6, 7} : s[k] \in DigitChars

\* C6 as stated: a raw date of the form MM/YYYY, such as 09/2023, is not
\* handled by the 6-digit or the 8-digit rule but goes to calendar parsing.
C6_MonthYearGoesToCalendar ==
  Loaded => \A k \in DatedRows :
     IsMonthYearForm(VisitedRows[k].rawDate) => VisitedRows[k].rule = 3

DigitPositions(s) == { k \in 1..Len(s) : s[k] \in DigitChars }

\* the k-th digit of s, counting digits only
NthDigit(s, n) ==
  s[CHOOSE k \in DigitPositions(s) :
       Cardinality({ j \in DigitPositions(s) : j <= k }) = n]

\* the first four digits, a hyphen, the next two digits
ExpectedDigitKey(s) ==
  << NthDigit(s, 1), NthDigit(s, 2), NthDigit(s, 3), NthDigit(s, 4), "-",
     NthDigit(s, 5), NthDigit(s, 6) >>

HasSeparator(s) == \E k \in 1..Len(s) : s[k] \in {"-", "/"}

Key_2023_09 == << "2", "0", "2", "3", "-", "0", "9" >>

\* C7: the date rules are tried in a fixed order and the first match wins.  A
\* raw date with exactly 6 or exactly 8 digits gets the key "first four
\* digits - next two digits" (202309, 20230915 and 2023-09-15 all give
\* 2023-09); calendar parsing is attempted exactly when the digit count is
\* neither 6 nor 8 and the raw text holds '-' or '/'; in every other case,
\* and when calendar parsing fails, the row is skipped.
C7_DateRulesInOrder ==
  Loaded => \A k \in DatedRows :
     LET r == VisitedRows[k]
         n == Cardinality(DigitPositions(r.rawDate))
     IN /\ n \in {6, 8} =>
             /\ r.rule \in {1, 2}
             /\ r.verdict # "date"
             /\ r.dateKey = ExpectedDigitKey(r.rawDate)
        /\ r.rule = 3 <=> (n \notin {6, 8} /\ HasSeparator(r.rawDate))
        /\ (n \notin {6, 8} /\ ~HasSeparator(r.rawDate)) => r.verdict = "date"
        /\ (r.rule = 3 /\ ~NewDate(r.rawDate, host).valid) => r.verdict = "date"
        /\ (r.rule = 3 /\ NewDate(r.rawDate, host).valid) =>
              (r.verdict # "date" /\ r.dateKey = calendarKey(NewDate(r.rawDate, host)))
        /\ r.rawDate \in {Date_202309, Date_20230915, Date_iso_day} =>
              r.dateKey = Key_2023_09

\* C7 witness: a file with the row 2023-09-15 (eight digits and hyphens:
\* keyed 2023-09 by the digit rule) and a row keyed by calendar parsing
C7_Witness ==
  /\ IsResolved
  /\ \E j \in RowsWithVerdict("ok") : \E k \in RowsWithVerdict("ok") :
        /\ VisitedRows[j].rawDate = Date_iso_day
        /\ VisitedRows[j].rule = 2
        /\ VisitedRows[j].dateKey = Key_2023_09
        /\ VisitedRows[k].rule = 3

\* a date key of exactly four digits, a hyphen and two digits
MatchesYearMonth(d) ==
  /\ Len(d) = 7
  /\ d[5] = "-"
  /\ \A k \in {1, 2, 3, 4, 6, 7} : d[k] \in DigitChars

\* C8 as stated: every point of every series of a resolved dataset has a date
\* of exactly four digits, a hyphen and two digits, whichever rule made it.
C8_DateKeysMatchFormat ==
  IsResolved => \A series \in AllSeriesOf(outcome.dataset) :
     \A k \in 1..Len(series) : MatchesYearMonth(series[k].date)

\* the visited rows whose amount field was parsed
AmountRows == RowsWithVerdict("amount") \cup RowsWithVerdict("ok")
                \cup RowsWithVerdict("threw")

\* C9 as stated: a row whose amount does not parse to a finite number is
\* skipped, so every amount of a resolved dataset is a finite number.
C9_NonFiniteAmountSkipped ==
  /\ Loaded => \A k \in AmountRows :
        ~IsFinite(VisitedRows[k].amount) => VisitedRows[k].verdict = "amount"
  /\ IsResolved => \A series \in AllSeriesOf(outcome.dataset) :
        \A k \in 1..Len(series) : IsFinite(series[k].amount)

AvailableClassSet ==
  { outcome.dataset.availableClasses[k] :
      k \in 1..Len(outcome.dataset.availableClasses) }

\* C10: with a class column, every aggregated row is held under its trimmed
\* class text, and under "Unknown" when that text is empty; without a class
\* column every aggregated row is held under "Unclassified", and
\* availableClasses is exactly ["Unclassified"].  A row is held under a
\* class when the class is in availableClasses and the class's series has
\* the row's month; no class is there without a row of it.
C10_ClassPlaceholders ==
  IsResolved =>
     /\ \A k \in RowsWithVerdict("ok") :
           LET c == LineClass(VisitedRows[k].line)
           IN /\ c \in AvailableClassSet
              /\ VisitedRows[k].dateKey \in MonthsOf(ByClassGet(outcome.dataset, c))
     /\ \A c \in ClassNamesOf(outcome.dataset) :
           \E k \in RowsWithVerdict("ok") : LineClass(VisitedRows[k].line) = c
     /\ locals.classIndex = -1 =>
           /\ outcome.dataset.availableClasses = << Str_Unclassified >>
           /\ ClassNamesOf(outcome.dataset) = { Str_Unclassified }

\* C10 witness: under a header with a class column, a row with a blank class
\* field and a row with a class text were aggregated, the first under
\* "Unknown"
C10_Witness ==
  /\ IsResolved
  /\ locals.classIndex # -1
  /\ Str_Unknown \in AvailableClassSet
  /\ \E j \in RowsWithVerdict("ok") : \E k \in RowsWithVerdict("ok") :
        /\ VisitedRows[j].line = Line_blank_class
        /\ VisitedRows[j].className = Str_Unknown
        /\ VisitedRows[k].className \notin {Str_Unknown, Str_Unclassified}

(***************************************************************************)
(* One line through the tokenizer and the header resolution.  LineSpec     *)
(* draws a line, calls parseCSVLine on it (csvService.ts 87 and 54) and    *)
(* resolves the column roles from the fields as lines 54-69 do.            *)
(***************************************************************************)
\* characters per generated line
MaxLineLen == 4
\* cells per generated header line
MaxCells == 3

Line_revenue_net == <<"2", "0", "2", "3", "0", "1", ",", "5", ",", "\"", "R", "e", "v", "e", "n", "u", "e", ",", " ", "N", "e", "t", "\"">>
Line_unbalanced == <<"2", "0", "2", "3", "0", "1", ",", "5", ",", "\"", "A", ",", " ", "B">>
Cell_billPeriod == <<"b", "i", "l", "l", "P", "e", "r", "i", "o", "d">>
Cell_Bill_Period == <<" ", "B", "i", "l", "l", " ", "P", "e", "r", "i", "o", "d", " ">>
Cell_monthly == <<"M", "o", "n", "t", "h", "l", "y">>
Cell_amount == <<"A", "M", "O", "U", "N", "T">>
Cell_accountClass == <<"a", "c", "c", "o", "u", "n", "t", "C", "l", "a", "s", "s">>
Cell_account_class == <<"a", "c", "c", "o", "u", "n", "t", "_", "c", "l", "a", "s", "s">>
Cell_actcode == <<"A", "c", "t", "-", "C", "o", "d", "e">>
Cell_customer == <<"c", "u", "s", "t", "o", "m", "e", "r">>

\* the characters the tokenizer treats differently, and one it does not
TokenChars == {"a", ",", "\"", "\r", " "}

TokenLines ==
  SeqsUpTo(TokenChars, MaxLineLen)
    \cup {Line_revenue_net, Line_unbalanced, Line_quoted_class}

HeaderCells ==
  { Cell_billPeriod, Cell_Bill_Period, Cell_monthly, Cell_amount,
    Cell_accountClass, Cell_account_class, Cell_actcode, Cell_customer }

\* the cells joined by commas
RECURSIVE JoinCells(_)
JoinCells(cells) ==
  IF cells = << >> THEN << >>
  ELSE IF Len(cells) = 1 THEN cells[1]
  ELSE cells[1] \o << "," >> \o JoinCells(Tail(cells))

HeaderInputs == { JoinCells(cells) : cells \in SeqsUpTo(HeaderCells, MaxCells) }

LineInputs == TokenLines \cup HeaderInputs

LineInit ==
  /\ ParserIdle
  /\ AppIdle
  /\ inputLine \in LineInputs
  /\ fields = NoFields
  /\ roles = NoRoles

\* parseCSVLine(line) (lines 5-31)
Tokenize ==
  /\ ~fields.done
  /\ fields' = [done |-> TRUE, val |-> parseCSVLine(inputLine)]
  /\ UNCHANGED << inputLine, roles >>
  /\ UNCHANGED parserVars
  /\ UNCHANGED appVars

\* lines 54-69 on the fields of the header line
ResolveHeader ==
  /\ fields.done
  /\ ~roles.done
  /\ LET headers == [k \in 1..Len(fields.val) |-> NormalizeHeader(fields.val[k])]
     IN roles' = [done |-> TRUE,
                  dateIndex |-> dateIndexOf(headers),
                  amountIndex |-> amountIndexOf(headers),
                  classIndex |-> classIndexOf(headers)]
  /\ UNCHANGED << inputLine, fields >>
  /\ UNCHANGED parserVars
  /\ UNCHANGED appVars

LineNext == Tokenize \/ ResolveHeader

LineSpec == LineInit /\ [][LineNext]_vars

\* the positions of the quote characters and of the commas of a line
QuotesBefore(s, k) == Cardinality({ j \in 1..(k - 1) : s[j] = "\"" })

CommasOutsideQuotes(s) ==
  { k \in 1..Len(s) : s[k] = "," /\ QuotesBefore(s, k) % 2 = 0 }

CommasInsideQuotes(s) ==
  { k \in 1..Len(s) : s[k] = "," /\ QuotesBefore(s, k) % 2 = 1 }

CommasIn(s) == Cardinality({ k \in 1..Len(s) : s[k] = "," })

RECURSIVE SumOver(_, _)
SumOver(seq, k) == IF k > Len(seq) THEN 0 ELSE CommasIn(seq[k]) + SumOver(seq, k + 1)

Field_Revenue_Net == << "R", "e", "v", "e", "n", "u", "e", ",", " ", "N", "e", "t" >>

\* C11: parseCSVLine returns one more field than the line has commas outside
\* quoted spans (each quote toggles the inside-quotes state); the commas
\* inside quoted spans stay in the fields ("Revenue, Net" is one field); no
\* field holds a quote or a carriage return; a line with unbalanced quotes
\* is tokenized like any other.
C11_FieldCount ==
  fields.done =>
     /\ Len(fields.val) = Cardinality(CommasOutsideQuotes(inputLine)) + 1
     /\ SumOver(fields.val, 1) = Cardinality(CommasInsideQuotes(inputLine))
     /\ \A k \in 1..Len(fields.val) :
           \A j \in 1..Len(fields.val[k]) : fields.val[k][j] \notin {"\"", "\r"}
     /\ inputLine = Line_revenue_net =>
           (Len(fields.val) = 3 /\ fields.val[3] = Field_Revenue_Net)

\* C11 witness: a line with an unbalanced quote and a comma after it was
\* tokenized into one field that holds the comma
C11_Witness ==
  /\ fields.done
  /\ QuotesBefore(inputLine, Len(inputLine) + 1) = 1
  /\ CommasInsideQuotes(inputLine) # {}
  /\ CommasOutsideQuotes(inputLine) # {}
  /\ Len(fields.val) = 2

\* the letters and digits of a cell, lower-cased
Canon(cell) == ToLowerCase(KeepChars(cell, UpperChars \cup LowerChars \cup DigitChars))

\* the zero-based position of the first field that is key up to case and
\* punctuation, -1 when there is none
FirstCell(key) ==
  LET hits == { k \in 1..Len(fields.val) : Canon(fields.val[k]) = key }
  IN IF hits = {} THEN -1 ELSE (CHOOSE k \in hits : \A j \in hits : k <= j) - 1

\* C12: header resolution is case- and punctuation-insensitive and the first
\* present wins per role: the date column is the first header that is
\* billperiod, else the first that is monthly; the amount column the first
\* that is amount; the class column the first that is accountclass, else the
\* first that is actcode, else absent, so that the fallback account_class
\* never decides the class column.
C12_HeaderResolution ==
  roles.done =>
     /\ roles.dateIndex = IF FirstCell(Key_billperiod) # -1
                          THEN FirstCell(Key_billperiod) ELSE FirstCell(Key_monthly)
     /\ roles.amountIndex = FirstCell(Key_amount)
     /\ roles.classIndex = IF FirstCell(Key_accountclass) # -1
                           THEN FirstCell(Key_accountclass) ELSE FirstCell(Key_actcode)

\* C12 witness: the header "Monthly, Bill Period ,account_class" was
\* resolved: the date column is the second (billperiod before monthly) and
\* the class column the third
C12_Witness ==
  /\ roles.done
  /\ inputLine = JoinCells(<< Cell_monthly, Cell_Bill_Period, Cell_account_class >>)
  /\ roles.dateIndex = 1
  /\ roles.classIndex = 2

(***************************************************************************)
(* Invocations of parseCSV compared.                                       *)
(***************************************************************************)
\* the outcome of the first invocation of a page on the text of this one
OutcomeAsFirstInvocation == onload(text, FreshRealm, host).outcome

\* C13 as stated: parseCSV keeps no state between invocations: whatever
\* parses ran before it, an invocation settles as the first invocation of
\* the page settles on the same text (the same error, or datasets equal in
\* totalByDate, byClass and availableClasses, element order included).
C13_SameOutcomeAsFirstInvocation ==
  Loaded => outcome = OutcomeAsFirstInvocation

(***************************************************************************)
(* The settlement of one invocation.                                       *)
(***************************************************************************)
\* a dataset with every part filled: a total series, the class names and a
\* series for every class name
CompleteDataset(dataset) ==
  /\ dataset.totalByDate # << >>
  /\ dataset.availableClasses # << >>
  /\ \A k \in 1..Len(dataset.availableClasses) :
        ByClassGet(dataset, dataset.availableClasses[k]) # << >>

\* the promise is settled with a complete dataset or with one error, and the
\* handler stopped at the validation that failed
SettledOnce ==
  /\ pc = "settled" <=> outcome.status \in {"resolved", "rejected"}
  /\ outcome.status = "resolved" =>
        (outcome.error = "" /\ CompleteDataset(outcome.dataset))
  /\ outcome.status = "rejected" =>
        (outcome.error # "" /\ outcome.dataset = NoDataset)
  /\ Loaded =>
        /\ (text = << >> \/ Trim(text) = << >>) <=> outcome.error = "EMPTY_FILE"
        /\ outcome.error = "EMPTY_FILE" =>
              (locals.stage = "text" /\ locals.lines = << >>)
        /\ (Trim(text) # << >> /\ Len(SplitLines(text)) < 2)
              <=> outcome.error = "TOO_FEW_LINES"
        /\ outcome.error = "TOO_FEW_LINES" =>
              (locals.stage = "lines" /\ locals.dateIndex = -1
                 /\ locals.amountIndex = -1 /\ locals.loop.rows = << >>)
        /\ outcome.error = "MISSING_COLUMN" =>
              (locals.stage = "headers" /\ locals.loop.rows = << >>
                 /\ realm = locals.realm0)
        /\ outcome.error = "NO_DATA" =>
              (locals.stage = "rows" /\ locals.loop.validRowCount = 0)
        /\ outcome.status = "resolved" =>
              (locals.stage = "rows" /\ locals.loop.validRowCount > 0)

\* the read of an invocation ends in a settled promise, and a settled
\* promise keeps its outcome until the next invocation
SettlesAndStays ==
  /\ (pc = "reading" /\ pc' # "reading") =>
        (pc' = "settled" /\ outcome.status = "pending"
           /\ outcome'.status \in {"resolved", "rejected"})
  /\ (pc = "settled" /\ pc' = "settled") => outcome' = outcome

\* C14: every invocation whose read completes settles exactly once, resolved
\* with a complete dataset or rejected with one error, never both and never
\* with a partial dataset; after a validation failure (empty text, fewer than
\* two lines, a missing required column, no valid row) no later stage runs.
C14_SettlesExactlyOnce == [](SettledOnce) /\ [][SettlesAndStays]_vars

\* C14 witness: the second invocation of a page was settled, rejected for a
\* missing column with no row read
C14_Witness ==
  /\ parses = 2
  /\ Loaded
  /\ outcome.error = "MISSING_COLUMN"
  /\ locals.loop.rows = << >>

(***************************************************************************)
(* getForecast (geminiService.ts 8-119).  The collaborator is the call     *)
(* ai.models.generateContent: it fails with an error that has a message,   *)
(* or it returns a response whose text is missing, is not JSON, or is a    *)
(* JSON document of the response schema of lines 66-91.                    *)
(***************************************************************************)
\* line 34
MinHistory == 6
\* line 39
HistoryWindow == 36

Msg_empty_response == <<"E", "m", "p", "t", "y", " ", "r", "e", "s", "p", "o", "n", "s", "e", " ", "f", "r", "o", "m", " ", "A", "I", " ", "m", "o", "d", "e", "l">>
Msg_rate_limit == <<"g", "o", "t", " ", "s", "t", "a", "t", "u", "s", ":", " ", "4", "2", "9", " ", "T", "o", "o", " ", "M", "a", "n", "y", " ", "R", "e", "q", "u", "e", "s", "t", "s">>
Msg_server == <<"g", "o", "t", " ", "s", "t", "a", "t", "u", "s", ":", " ", "5", "0", "0", " ", "I", "n", "t", "e", "r", "n", "a", "l">>
Msg_unexpected == <<"U", "n", "e", "x", "p", "e", "c", "t", "e", "d", " ", "t", "o", "k", "e", "n", " ", "i", "n", " ", "J", "S", "O", "N", ":", " ">>
Msg_not_json == <<"J", "S", "O", "N", ".", "p", "a", "r", "s", "e", ":", " ", "u", "n", "e", "x", "p", "e", "c", "t", "e", "d", " ", "c", "h", "a", "r", "a", "c", "t", "e", "r">>
Text_oops == <<"o", "o", "p", "s">>
Text_error_429 == <<"E", "r", "r", "o", "r", " ", "4", "2", "9">>

Str_429 == << "4", "2", "9" >>

\* String.prototype.includes with a string argument
IncludesSub(s, sub) ==
  \E k \in 0..(Len(s) - Len(sub)) : SubSeq(s, k + 1, k + Len(sub)) = sub

ForecastError(code, detail) == [code |-> code, detail |-> detail]

\* line 15
missingApiKey(apiKey) == apiKey = << >> \/ Trim(apiKey) = << >>

\* line 29
noHistory(history) == Len(history) = 0

\* the threshold off by one: a variant of insufficientHistory
insufficientHistoryBelowFive(history) == Len(history) < MinHistory - 1

\* line 34
insufficientHistory(history) == Len(history) < MinHistory

\* history.slice(-36) (line 39)
recentHistoryOf(history) ==
  IF Len(history) <= HistoryWindow THEN history
  ELSE SubSeq(history, Len(history) - HistoryWindow + 1, Len(history))

\* lines 12-36: the error thrown before generateContent is called, if any
precheck(history, environment) ==
  IF missingApiKey(environment.apiKey)
  THEN [ok |-> FALSE, error |-> ForecastError("NO_API_KEY", << >>)]
  ELSE IF environment.clientInit = "throws"
  THEN [ok |-> FALSE, error |-> ForecastError("CLIENT_INIT", << >>)]
  ELSE IF noHistory(history)
  THEN [ok |-> FALSE, error |-> ForecastError("NO_HISTORY", << >>)]
  ELSE IF insufficientHistory(history)
  THEN [ok |-> FALSE,
        error |-> ForecastError("INSUFFICIENT_HISTORY", NatToStr(Len(history)))]
  ELSE [ok |-> TRUE, error |-> NoError]

\* what generateContent can do
Failure(rateLimited, message) ==
  [kind |-> "failure", rateLimited |-> rateLimited, message |-> message,
   value |-> NoForecast]

EmptyResponse ==
  [kind |-> "empty", rateLimited |-> FALSE, message |-> << >>, value |-> NoForecast]

TextResponse(responseText) ==
  [kind |-> "text", rateLimited |-> FALSE, message |-> responseText,
   value |-> NoForecast]

JsonResponse(value) ==
  [kind |-> "json", rateLimited |-> FALSE, message |-> << >>, value |-> value]

\* the message of the SyntaxError JSON.parse throws on a text that is not
\* JSON: some engines quote the text in it, others do not
SyntaxErrorMessage(responseText, environment) ==
  IF environment.quotesText THEN Msg_unexpected \o responseText ELSE Msg_not_json

\* lines 106-109: the error thrown inside the try block, if any
thrownInTry(response, environment) ==
  IF response.kind = "failure" THEN [thrown |-> TRUE, message |-> response.message]
  ELSE IF response.kind = "empty" THEN [thrown |-> TRUE, message |-> Msg_empty_response]
  ELSE IF response.kind = "text"
  THEN [thrown |-> TRUE, message |-> SyntaxErrorMessage(response.message, environment)]
  ELSE [thrown |-> FALSE, message |-> << >>]

\* line 114
looksRateLimited(message) == message # << >> /\ IncludesSub(message, Str_429)

\* lines 93-118: how getForecast settles once generateContent has
afterGenerateContent(response, environment) ==
  LET t == thrownInTry(response, environment)
  IN IF ~t.thrown THEN [ok |-> TRUE, value |-> response.value, error |-> NoError]
     ELSE IF looksRateLimited(t.message)
     THEN [ok |-> FALSE, value |-> NoForecast,
           error |-> ForecastError("RATE_LIMIT", << >>)]
     ELSE [ok |-> FALSE, value |-> NoForecast,
           error |-> ForecastError("ANALYSIS_FAILED", t.message)]

(***************************************************************************)
(* The App component (App.tsx) with the upload control                     *)
(* (unnamed/part_001), parseCSV and getForecast.  A handler and the        *)
(* continuations that run in the same turn of the event loop (the code     *)
(* after an await whose promise is already settled) are one action.        *)
(***************************************************************************)
\* getForecast calls that reach generateContent, per behaviour
MaxRequests == 3

File_main == <<"b", "i", "l", "l", "P", "e", "r", "i", "o", "d", ",", "a", "m", "o", "u", "n", "t", ",", "a", "c", "c", "o", "u", "n", "t", "C", "l", "a", "s", "s", "\n", "2", "0", "2", "3", "0", "1", ",", "1", ",", "A", "\n", "2", "0", "2", "3", "0", "2", ",", "1", ",", "A", "\n", "2", "0", "2", "3", "0", "3", ",", "1", ",", "A", "\n", "2", "0", "2", "3", "0", "4", ",", "1", ",", "A", "\n", "2", "0", "2", "3", "0", "5", ",", "1", ",", "A", "\n", "2", "0", "2", "3", "0", "6", ",", "1", ",", "A", "\n", "2", "0", "2", "3", "0", "1", ",", "2", ",", "B", "\n", "2", "0", "2", "3", "0", "2", ",", "2", ",", "B", "\n", "2", "0", "2", "3", "0", "3", ",", "2", ",", "B", "\n", "2", "0", "2", "3", "0", "4", ",", "2", ",", "B", "\n", "2", "0", "2", "3", "0", "5", ",", "2", ",", "B">>
File_other == <<"b", "i", "l", "l", "P", "e", "r", "i", "o", "d", ",", "a", "m", "o", "u", "n", "t", "\n", "2", "0", "2", "2", "0", "7", ",", "1", "\n", "2", "0", "2", "2", "0", "8", ",", "1", "\n", "2", "0", "2", "2", "0", "9", ",", "1", "\n", "2", "0", "2", "2", "1", "0", ",", "1", "\n", "2", "0", "2", "2", "1", "1", ",", "1", "\n", "2", "0", "2", "2", "1", "2", ",", "1">>
File_short == <<"b", "i", "l", "l", "P", "e", "r", "i", "o", "d", ",", "a", "m", "o", "u", "n", "t", "\n", "2", "0", "2", "3", "0", "1", ",", "1", "\n", "2", "0", "2", "3", "0", "2", ",", "1">>
Str_Total_Portfolio == <<"T", "o", "t", "a", "l", " ", "P", "o", "r", "t", "f", "o", "l", "i", "o">>
Str_Account_Class == <<"A", "c", "c", "o", "u", "n", "t", " ", "C", "l", "a", "s", "s", ":", " ">>

\* a file with six months in all and in class A and five months in class B,
\* a file of six other months without a class column, a file of two months,
\* a header without rows
AppTexts == { File_main, File_other, File_short, Header_std }

Envs ==
  { Env_default,
    [Env_default EXCEPT !.quotesText = FALSE],
    [Env_default EXCEPT !.apiKey = << >>],
    [Env_default EXCEPT !.apiKey = << " " >>],
    [Env_default EXCEPT !.clientInit = "throws"] }

\* the month n months after the month of a date key YYYY-MM
MonthAfter(dateKey, n) ==
  LET y == DigitsToNat(SubSeq(dateKey, 1, 4))
      m == DigitsToNat(SubSeq(dateKey, 6, 7))
      t == y * 12 + (m - 1) + n
  IN NatToStr(t \div 12) \o << "-" >> \o PadStart2(NatToStr((t % 12) + 1))

\* n monthly points of amount 1 from the month first months after dateKey on
MonthsFrom(dateKey, first, n) ==
  [k \in 1..n |-> [date |-> MonthAfter(dateKey, first + k - 1), amount |-> IntNum(1)]]

ForecastOf(points) == [forecast |-> points, reasoning |-> "r", trend |-> "up"]

\* documents of the response schema for a history: the six months after its
\* last month, only five of them, six months from its last month on
ForecastsFor(history) ==
  LET lastDate == history[Len(history)].date
  IN { ForecastOf(MonthsFrom(lastDate, 1, 6)),
       ForecastOf(MonthsFrom(lastDate, 1, 5)),
       ForecastOf(MonthsFrom(lastDate, 0, 6)) }

ResponsesFor(history) ==
  { Failure(TRUE, Msg_rate_limit), Failure(FALSE, Msg_server), EmptyResponse,
    TextResponse(Text_oops), TextResponse(Text_error_429) }
    \cup { JsonResponse(f) : f \in ForecastsFor(history) }

NewRequest(history, segmentName) ==
  [history |-> history, segment |-> segmentName, pending |-> TRUE]

\* analyzeData (App.tsx 43-58) up to the await of line 49 and, when
\* getForecast throws before generateContent, its catch clause
analyzeData(data, segmentName) ==
  LET pre == precheck(data, env)
  IN /\ currentHistory' = data
     /\ forecastResult' = NullForecast
     /\ resultRequest' = 0
     /\ calls' = calls + 1
     /\ lastSettled' = lastSettled
     /\ IF pre.ok
        THEN /\ appState' = "ANALYZING"
             /\ requests' = Append(requests, NewRequest(data, segmentName))
             /\ currentRequest' = Len(requests) + 1
             /\ error' = error
        ELSE /\ appState' = "ERROR"
             /\ error' = NonNull(pre.error)
             /\ requests' = requests
             /\ currentRequest' = 0

\* handleFileSelect (App.tsx 22-29) up to the await of parseCSV; the upload
\* control is rendered in IDLE and PARSING (line 181) and disabled while
\* PARSING (line 196, part_001 21 and 27).  One read is followed at a time.
handleFileSelect(fileText) ==
  /\ appState = "IDLE"
  /\ pc # "reading"
  /\ Len(requests) < MaxRequests
  /\ parseCSVCall(fileText)
  /\ appState' = "PARSING"
  /\ error' = NullError
  /\ selectedClass' = Str_ALL
  /\ UNCHANGED << fullDataset, currentHistory, forecastResult, env, requests,
                  lastSettled, calls, currentRequest, resultRequest >>
  /\ UNCHANGED lineVars

\* the catch clause going to ERROR without a message: a variant of
\* handleFileSelectResume
handleFileSelectResumeWithoutMessage ==
  IF outcome'.status = "resolved"
  THEN /\ fullDataset' = NonNull(outcome'.dataset)
       /\ analyzeData(outcome'.dataset.totalByDate, Str_Total_Portfolio)
       /\ UNCHANGED << selectedClass, env >>
  ELSE /\ appState' = "ERROR"
       /\ UNCHANGED << error, fullDataset, selectedClass, currentHistory,
                       forecastResult, env, requests, lastSettled, calls,
                       currentRequest, resultRequest >>

\* the rest of handleFileSelect (App.tsx 30-39) once parseCSV has settled
handleFileSelectResume ==
  IF outcome'.status = "resolved"
  THEN /\ fullDataset' = NonNull(outcome'.dataset)
       /\ analyzeData(outcome'.dataset.totalByDate, Str_Total_Portfolio)
       /\ UNCHANGED << selectedClass, env >>
  ELSE /\ error' = NonNull(ForecastError(outcome'.error, << >>))
       /\ appState' = "ERROR"
       /\ UNCHANGED << fullDataset, selectedClass, currentHistory, forecastResult,
                       env, requests, lastSettled, calls, currentRequest,
                       resultRequest >>

\* reader.onload, then the rest of handleFileSelect
FileReadLoad ==
  /\ onloadEvent
  /\ handleFileSelectResume
  /\ UNCHANGED lineVars

\* reader.onerror, then the catch clause of handleFileSelect
FileReadError ==
  /\ onerrorEvent
  /\ handleFileSelectResume
  /\ UNCHANGED lineVars

\* generateContent settles for request i; getForecast settles (lines 93-118)
\* and analyzeData resumes (App.tsx 51-57)
GenerateContentSettles(i, response) ==
  /\ i \in 1..Len(requests)
  /\ requests[i].pending
  /\ response \in ResponsesFor(requests[i].history)
  /\ LET r == afterGenerateContent(response, env)
     IN /\ requests' = [requests EXCEPT ![i].pending = FALSE]
        /\ lastSettled' = [request |-> i, response |-> response, result |-> r]
        /\ IF r.ok
           THEN /\ forecastResult' = NonNull(r.value)
                /\ appState' = "SUCCESS"
                /\ resultRequest' = i
                /\ error' = error
           ELSE /\ error' = NonNull(r.error)
                /\ appState' = "ERROR"
                /\ UNCHANGED << forecastResult, resultRequest >>
  /\ UNCHANGED << fullDataset, selectedClass, currentHistory, env, calls,
                  currentRequest >>
  /\ UNCHANGED parserVars
  /\ UNCHANGED lineVars

\* the options of the select of lines 224-236
ClassOptions(dataset) ==
  {Str_ALL} \cup { dataset.availableClasses[k] : k \in 1..Len(dataset.availableClasses) }

\* lines 65-69
dataToAnalyzeOf(dataset, cls) ==
  IF cls = Str_ALL THEN dataset.totalByDate ELSE ByClassGet(dataset, cls)

segmentNameOf(cls) ==
  IF cls = Str_ALL THEN Str_Total_Portfolio ELSE Str_Account_Class \o cls

\* handleClassChange (App.tsx 60-78); the select is rendered in SUCCESS and
\* ANALYZING when a dataset is held (line 212) and disabled while ANALYZING
\* (line 227)
handleClassChange(cls) ==
  /\ appState = "SUCCESS"
  /\ ~fullDataset.isNull
  /\ cls \in ClassOptions(fullDataset.v)
  /\ cls # selectedClass
  /\ Len(requests) < MaxRequests
  /\ selectedClass' = cls
  /\ IF Len(dataToAnalyzeOf(fullDataset.v, cls)) > 0
     THEN analyzeData(dataToAnalyzeOf(fullDataset.v, cls), segmentNameOf(cls))
     ELSE /\ error' = NonNull(ForecastError("NO_CLASS_DATA", << >>))
          /\ appState' = "ERROR"
          /\ UNCHANGED << currentHistory, forecastResult, requests, lastSettled,
                          calls, currentRequest, resultRequest >>
  /\ UNCHANGED << fullDataset, env >>
  /\ UNCHANGED parserVars
  /\ UNCHANGED lineVars

\* resetApp (App.tsx 80-87); its buttons are rendered in SUCCESS and
\* ANALYZING (line 151) and in ERROR (lines 165-175)
resetApp ==
  /\ appState \in {"SUCCESS", "ANALYZING", "ERROR"}
  /\ appState' = "IDLE"
  /\ fullDataset' = NullDataset
  /\ currentHistory' = << >>
  /\ forecastResult' = NullForecast
  /\ error' = NullError
  /\ selectedClass' = Str_ALL
  /\ currentRequest' = 0
  /\ resultRequest' = 0
  /\ UNCHANGED << env, requests, lastSettled, calls >>
  /\ UNCHANGED parserVars
  /\ UNCHANGED lineVars

AppInit ==
  /\ ParserIdle
  /\ LineIdle
  /\ AppMounted
  /\ env \in Envs

AppNext ==
  \/ \E fileText \in AppTexts : handleFileSelect(fileText)
  \/ FileReadLoad
  \/ FileReadError
  \/ \E i \in 1..Len(requests) : \E response \in ResponsesFor(requests[i].history) :
        GenerateContentSettles(i, response)
  \/ \E cls \in ClassOptions(fullDataset.v) : handleClassChange(cls)
  \/ resetApp

AppSpec == AppInit /\ [][AppNext]_vars

\* the component's appState is one of the values of the enum of types.ts
TypeOK == appState \in {"IDLE", "PARSING", "ANALYZING", "SUCCESS", "ERROR"}

(***************************************************************************)
(* Properties of getForecast and the App.                                  *)
(***************************************************************************)
\* this step is a call of getForecast with fewer than MinHistory points
CallWithShortHistory == calls' = calls + 1 /\ Len(currentHistory') < MinHistory

\* the call failed before generateContent and the component shows the error
FailedBeforeCall(code) ==
  /\ requests' = requests
  /\ appState' = "ERROR"
  /\ ~error'.isNull
  /\ error'.v.code = code

\* C15 as stated: a call of getForecast with fewer than 6 points fails with
\* the insufficient-history error, generateContent is not issued and the App
\* ends in ERROR.
C15_ShortHistoryIsInsufficient ==
  [][CallWithShortHistory => FailedBeforeCall("INSUFFICIENT_HISTORY")]_vars

\* the error the checks of lines 12-36 give for a history under MinHistory
ExpectedShortHistoryCode(history) ==
  IF env.apiKey = << >> \/ Trim(env.apiKey) = << >> THEN "NO_API_KEY"
  ELSE IF env.clientInit = "throws" THEN "CLIENT_INIT"
  ELSE IF Len(history) = 0 THEN "NO_HISTORY"
  ELSE "INSUFFICIENT_HISTORY"

\* C15 amended: a call of getForecast with fewer than 6 points fails before
\* generateContent is issued and the App ends in ERROR; the error is the
\* insufficient-history error when an API key is configured, the client
\* constructs and the history has 1 to 5 points, the API-key error when the
\* key is missing or blank, the connection error when the client constructor
\* throws, and the no-data error when the history is empty.
C15_ShortHistoryFailsBeforeCall ==
  /\ [][CallWithShortHistory =>
          FailedBeforeCall(ExpectedShortHistoryCode(currentHistory'))]_vars
  /\ [](/\ ~precheck(<< >>, env).ok
        /\ precheck(<< >>, env).error.code = ExpectedShortHistoryCode(<< >>))

\* C15 witness: the class B of five months was selected and its forecast
\* refused for insufficient history, no request issued for it
C15_Witness ==
  /\ appState = "ERROR"
  /\ ~error.isNull
  /\ error.v.code = "INSUFFICIENT_HISTORY"
  /\ selectedClass = << "B" >>
  /\ Len(currentHistory) = 5
  /\ currentRequest = 0

\* getForecast reported the rate-limit error for the request settled last
ReportedRateLimit ==
  ~lastSettled.result.ok /\ lastSettled.result.error.code = "RATE_LIMIT"

\* C16 as stated: getForecast reports the rate-limit error exactly when
\* generateContent failed with a rate-limit condition; a missing or
\* malformed response text is reported as the generic analysis error and
\* never as the rate-limit error, whatever the text holds.
C16_RateLimitExactlyWhenRateLimited ==
  lastSettled.request # 0 =>
     /\ ReportedRateLimit <=>
           (lastSettled.response.kind = "failure" /\ lastSettled.response.rateLimited)
     /\ lastSettled.response.kind \in {"empty", "text"} =>
           (~lastSettled.result.ok
              /\ lastSettled.result.error.code = "ANALYSIS_FAILED")

\* the history passed to the request settled last
SettledHistory == requests[lastSettled.request].history

\* C17 as stated: when getForecast returns successfully, the forecast holds
\* exactly 6 points whose dates are the 6 consecutive months after the last
\* month of the history that was passed in.
C17_SixMonthsAfterHistory ==
  (lastSettled.request # 0 /\ lastSettled.result.ok) =>
     LET forecast == lastSettled.result.value.forecast
         lastDate == SettledHistory[Len(SettledHistory)].date
     IN /\ Len(forecast) = 6
        /\ \A k \in 1..Len(forecast) : forecast[k].date = MonthAfter(lastDate, k)

\* ------------------------------------------------------------------
\* chartData (App.tsx 89-123): the display sequence of the held history and
\* the held forecast
\* ------------------------------------------------------------------

\* a null actual or forecast value of a ChartDataPoint (types.ts 33-37)
NullValue == [isNull |-> TRUE, v |-> IntNum(0)]

\* the point pushed for a historical item (lines 96-102)
HistoricalPoint(item) ==
  [date |-> item.date, actual |-> NonNull(item.amount), forecast |-> NullValue]

\* the point pushed for a forecast item (lines 113-119)
ForecastPoint(item) ==
  [date |-> item.date, actual |-> NullValue, forecast |-> NonNull(item.amount)]

\* the memoised value for the current currentHistory and forecastResult
chartData ==
  IF Len(currentHistory) = 0 THEN << >>
  ELSE LET historical == [i \in 1..Len(currentHistory) |->
                             HistoricalPoint(currentHistory[i])]
           lastHistory == currentHistory[Len(currentHistory)]
           connected == [i \in 1..Len(historical) |->
                           IF i = Len(historical)
                           THEN [historical[i] EXCEPT
                                   !.forecast = NonNull(lastHistory.amount)]
                           ELSE historical[i]]
           forecasted == [k \in 1..Len(forecastResult.v.forecast) |->
                             ForecastPoint(forecastResult.v.forecast[k])]
       IN IF forecastResult.isNull THEN historical
          ELSE connected \o forecasted

\* a chart is built from a non-empty history and a forecast result
ChartOfForecast == Len(currentHistory) > 0 /\ ~forecastResult.isNull

\* the points of the chart are those of the history, then those of the
\* forecast, each in its order and with its values; only the last historical
\* point has a forecast value, its own amount
ChartShape ==
  LET n == Len(currentHistory)
      forecast == forecastResult.v.forecast
  IN /\ Len(chartData) = n + Len(forecast)
     /\ \A i \in 1..n :
          /\ chartData[i].date = currentHistory[i].date
          /\ chartData[i].actual = NonNull(currentHistory[i].amount)
          /\ i < n => chartData[i].forecast.isNull
          /\ i = n => chartData[i].forecast = NonNull(currentHistory[i].amount)
     /\ \A k \in 1..Len(forecast) :
          /\ chartData[n + k].date = forecast[k].date
          /\ chartData[n + k].actual.isNull
          /\ chartData[n + k].forecast = NonNull(forecast[k].amount)

\* the dates of the chart go up from each point to the next
ChartAscending ==
  \A i \in 1..(Len(chartData) - 1) :
     CompareStr(chartData[i].date, chartData[i + 1].date) < 0

\* the part of C18 that does not depend on the dates of the forecast
ChartShapeHolds == ChartOfForecast => ChartShape

\* C18 as stated: the chart built from a non-empty history and a forecast
\* result is the history points in order followed by the forecast points in
\* order, ascending by date overall; historical points carry actual = amount,
\* forecast points carry actual = null and forecast = amount, and the last
\* historical point is the only historical one with a forecast value, its own
\* amount.
C18_ChartIsChronologicalMerge ==
  ChartOfForecast => (ChartShape /\ ChartAscending)

\* a step in which no file is selected (handleFileSelect starts a parse)
NoFileSelected == parses' = parses

\* from IDLE, a step without a file selection leaves the App idle and empty
StaysIdleUntilFileSelected ==
  (appState = "IDLE" /\ NoFileSelected) =>
     (appState' = "IDLE" /\ forecastResult'.isNull /\ error'.isNull)

\* C19 as stated: when resetApp runs while a forecast request is pending, the
\* later completion of that request (success or failure) is discarded: the
\* App stays in IDLE with forecastResult = null and error = null until the
\* next file is selected.
C19_CompletionAfterResetIsDiscarded == [][StaysIdleUntilFileSelected]_vars

\* C20 as stated: in every reachable state with appState = SUCCESS,
\* forecastResult is the result of the forecast request that was issued for
\* the currently held currentHistory, never the result of a request issued
\* for a previously uploaded file or a previously selected segment.
C20_ForecastBelongsToCurrentHistory ==
  appState = "SUCCESS" =>
     /\ ~forecastResult.isNull
     /\ resultRequest # 0
     /\ requests[resultRequest].history = currentHistory

\* ------------------------------------------------------------------
\* The order of the data rows
\* ------------------------------------------------------------------

\* the data lines of the file that was read, and its header line
DataLines == Tail(locals.lines)

HeaderLine == locals.lines[1]

\* the files with the same header line and the data lines in another order
PermutedTexts ==
  { FileOf(HeaderLine, [i \in 1..Len(DataLines) |-> DataLines[p[i]]]) :
      p \in Permutations(1..Len(DataLines)) }

\* the keys under which byClass holds a series, the inherited key __proto__
\* included when the prototype of byClass was replaced
ByClassKeys(dataset) ==
  { dataset.byClass.own[k].k : k \in 1..Len(dataset.byClass.own) }
    \cup (IF dataset.byClass.proto.set THEN { Str___proto__ } ELSE {})

\* equal totalByDate, equal availableClasses, the same mapping in byClass
SameDataset(a, b) ==
  /\ a.totalByDate = b.totalByDate
  /\ a.availableClasses = b.availableClasses
  /\ ByClassKeys(a) = ByClassKeys(b)
  /\ \A cls \in ByClassKeys(a) : ByClassGet(a, cls) = ByClassGet(b, cls)

SameOutcome(a, b) ==
  /\ a.status = b.status
  /\ a.error = b.error
  /\ SameDataset(a.dataset, b.dataset)

\* the outcome of parseCSV on a text in the realm and on the host of the
\* invocation that settled
OutcomeOf(fileText) == onload(fileText, locals.realm0, host).outcome

\* C21 as stated: the dataset does not depend on the order of the data rows:
\* for any permutation of the data lines of a file (header fixed, integer
\* amounts), parseCSV yields the same outcome, with equal totalByDate, equal
\* availableClasses and the same class-to-series mapping in byClass.
C21_RowOrderIndependent ==
  (Loaded /\ Len(locals.lines) >= 2 /\ IntegerRows) =>
     \A permuted \in PermutedTexts : SameOutcome(OutcomeOf(permuted), outcome)

\* ------------------------------------------------------------------
\* The months of the date keys
\* ------------------------------------------------------------------

\* the two characters after the hyphen of a date key
MonthPartOf(d) == SubSeq(d, Len(d) - 1, Len(d))

\* the month part of a date key is one of 01 .. 12
DenotesCalendarMonth(d) ==
  /\ Len(d) >= 4
  /\ d[Len(d) - 2] = "-"
  /\ AllDigits(MonthPartOf(d))
  /\ DigitsToNat(MonthPartOf(d)) \in 1..12

\* C23 as stated: every date key in a dataset that parseCSV resolves with
\* denotes a real calendar month: its two-digit month part is between 01 and
\* 12, for every raw date accepted by any of the three normalization rules
\* (including separator-containing dates such as 2023-9-5 or 1/2/2023).
C23_DateKeysAreCalendarMonths ==
  IsResolved => \A series \in AllSeriesOf(outcome.dataset) :
     \A k \in 1..Len(series) : DenotesCalendarMonth(series[k].date)

\* ------------------------------------------------------------------
\* The error message of the ERROR state
\* ------------------------------------------------------------------

\* C22: in every reachable state of the App, under any interleaving of file
\* selections, class changes, resets and completions of parse and forecast
\* requests, appState = ERROR implies that the error message is non-null.
C22_ErrorStateHasMessage == appState = "ERROR" => ~error.isNull

\* C22 witness: the App is in ERROR with a message while the read of a second
\* file is under way: the first file was abandoned by a reset while its
\* forecast was pending, the selection of the second file cleared the
\* message, and then the abandoned request failed
C22_Witness ==
  /\ appState = "ERROR"
  /\ ~error.isNull
  /\ pc = "reading"
  /\ parses = 2
  /\ lastSettled.request # 0
  /\ ~lastSettled.result.ok
  /\ error.v = lastSettled.result.error

====
